---------------------------- MODULE Spec2Model ----------------------------
(***************************************************************************)
(* A state-machine model of the emo Kademlia DHT (tos-network/emo):        *)
(* the in-memory storage, the routing table with its buckets, the request  *)
(* cache, the journey of an iterative lookup and the Store / Find          *)
(* operations of the DHT coordinator.                                      *)
(*                                                                         *)
(* Ids and keys are KEY_BITS-bit numbers (the source has 256 bits, the     *)
(* model a few); K is scaled down the same way.  Time is a counter of      *)
(* ticks; the zero time.Time is 0 and the clock starts at 1, so that every *)
(* real instant lies after the zero time as it does in the program.        *)
(***************************************************************************)
EXTENDS Integers, Sequences, FiniteSets, TLC

(***************************************************************************)
(* Sizes.  KEY_BITS and K carry the source's names and are scaled down;    *)
(* the others bound the inputs and the clock.                              *)
(***************************************************************************)
KEY_BITS == 3
K == 2
MaxTime == 3
MaxTTL == 1
MaxCreated == 2
MaxGen == 2
NumSetters == 2

\* program constants kept at their value
KEY_BYTES == 32
VALUE_BYTES == 32768

VARIABLES
    now,        \* the wall clock, time.Now()
    store,      \* storage.store (sync.Map): the item of each key
    setters,    \* the Set calls in progress, one per caller
    written,    \* history: the (key, value) of every Set that returned
    buckets,    \* routingTable.buckets
    requests,   \* cache.requests: the pending requests, in order of registration
    calls,      \* the Store and Find calls made, each with what its callback got
    journey,    \* a journey driven on its own, by add and next
    walked,     \* history: what every next of that journey returned
    packets,    \* packetManager: the packets under reassembly, by request id
    wire,       \* history: the payload fragmented under each request id, its
                \* fragments, and the indexes handed to assemble so far
    boot,       \* the call of New: its bootstrap channel and what it returned
    tasks,      \* the long-running tasks of a DHT and its call of Close
    threads,    \* the calls in progress on one journey or one request cache:
                \* where each caller stands and what it has read
    last        \* history: the last operation carried out and what it returned

vars == <<now, store, setters, written, buckets, requests, calls, journey, walked,
          packets, wire, boot, tasks, threads, last>>

\* the variables of the storage, the routing table and the coordinator
dhtVars == <<now, store, setters, written, buckets, requests, calls>>

\* the variables of the journey driven on its own
journeyVars == <<journey, walked>>

\* the variables of the packet manager driven on its own
packetVars == <<packets, wire>>

\* the variables of the start and the shutdown of a DHT
startVars == <<boot, tasks>>

\* the variables of the callers that run side by side
threadVars == <<threads>>

\* the variables the storage, the routing table and the coordinator leave alone
extra == <<journeyVars, packetVars, startVars, threadVars>>

IDs == 0 .. (2 ^ KEY_BITS - 1)

\* the keys and values the callers of the storage use
UserKeys == {2, 5}
UserValues == {"v", "w"}

NoOp == [op |-> "none"]

----------------------------------------------------------------------------
(***************************************************************************)
(* Sequence helpers                                                        *)
(***************************************************************************)
Range(s) == {s[i] : i \in 1 .. Len(s)}

\* the number of positions of s holding x
Occurrences(s, x) == Cardinality({i \in 1 .. Len(s) : s[i] = x})

----------------------------------------------------------------------------
(***************************************************************************)
(* storage.go: the in-memory storage                                       *)
(*                                                                         *)
(* store[k] is the entry of the sync.Map for key k.  mapped says whether   *)
(* the map holds an item for k; gen identifies the *item (the gen-th item  *)
(* allocated for k), which is what a Set in progress holds on to after its *)
(* Load.  An item the sweeper has deleted from the map is garbage: nothing *)
(* reads it again, so its contents are not kept, and an insert into it     *)
(* changes nothing that can be observed.                                   *)
(***************************************************************************)

\* maphash of a key / of a value.  The 64-bit seeded hash is not computable
\* here; it is taken to be collision free on the few keys and values of the
\* model, each hashing to itself.
KeyHash(k) == k
ValueHash(v) == v

NoItem(g) == [mapped |-> FALSE, gen |-> g, contains |-> {}, values |-> <<>>]

\* The value record built by Set: expires is computed from the clock,
\* Created is what the caller passed.
NewValue(v, created, ttl) ==
    [value |-> v, created |-> created, ttl |-> ttl, expires |-> now + ttl]

\* item.insert, changed: appends without looking at the contains set
ItemInsertNoDedup(it, value) ==
    [it EXCEPT !.contains = @ \cup {ValueHash(value.value)},
               !.values = Append(@, value)]

\* item.insert: under the item's mutex, append unless the hash is known
ItemInsert(it, value) ==
    IF ValueHash(value.value) \in it.contains
    THEN it
    ELSE [it EXCEPT !.contains = @ \cup {ValueHash(value.value)},
                    !.values = Append(@, value)]

\* the item Set allocates for LoadOrStore, the (g+1)-th of its key
NewItem(g, value) ==
    [mapped |-> TRUE, gen |-> g + 1,
     contains |-> {ValueHash(value.value)}, values |-> <<value>>]

\* storage.Get(k, from): all the values when from is the zero time;
\* otherwise the values past the first `index`, index being the number of
\* values created before from.
Get(st, k, from) ==
    IF ~st[KeyHash(k)].mapped
    THEN [values |-> <<>>, ok |-> FALSE]
    ELSE LET vs == st[KeyHash(k)].values
             index == Cardinality({i \in 1 .. Len(vs) : vs[i].created < from})
         IN  IF from = 0 THEN [values |-> vs, ok |-> TRUE]
             ELSE IF index >= Len(vs) THEN [values |-> <<>>, ok |-> FALSE]
             ELSE [values |-> SubSeq(vs, index + 1, Len(vs)), ok |-> TRUE]

\* the test of the sweeper's inner loop: the key is deleted when some value
\* of the item has expires.After(now)
Sweeps(it, t) == \E i \in 1 .. Len(it.values) : it.values[i].expires > t

\* one pass of storage.cleanup over the map
CleanupMap(st, t) ==
    [k \in DOMAIN st |->
        IF st[k].mapped /\ Sweeps(st[k], t) THEN NoItem(st[k].gen) ELSE st[k]]

\* history: the (key, value) pairs Get returns whose TTL has not elapsed at t
LiveValues(st, t) ==
    UNION {{<<k, st[k].values[i].value>> :
                i \in {j \in 1 .. Len(st[k].values) : st[k].values[j].expires > t}} :
           k \in {x \in DOMAIN st : st[x].mapped}}

\* storage.Set run without another caller in between
SetAtomic(st, k, value) ==
    IF st[KeyHash(k)].mapped
    THEN [st EXCEPT ![KeyHash(k)] = ItemInsert(@, value)]
    ELSE [st EXCEPT ![KeyHash(k)] = NewItem(@.gen, value)]

Written(k, value) == <<k, value.value>>

Idle == [pc |-> "idle"]

\* Set called by one caller at a time: the whole of it
Set(k, v, created, ttl) ==
    /\ store[KeyHash(k)].mapped \/ store[KeyHash(k)].gen < MaxGen
    /\ store' = SetAtomic(store, k, NewValue(v, created, ttl))
    /\ written' = written \cup {Written(k, NewValue(v, created, ttl))}
    /\ last' = [op |-> "Set", key |-> k, value |-> v, again |-> <<k, v>> \in written]
    /\ UNCHANGED <<extra, requests, calls, now, setters, buckets>>

\* Set among concurrent callers, up to and including its first store.Load
SetLoad(p, k, v, created, ttl) ==
    /\ setters[p].pc = "idle"
    /\ LET value == NewValue(v, created, ttl)
       IN  setters' = [setters EXCEPT ![p] =
               IF store[KeyHash(k)].mapped
               THEN [pc |-> "insert", key |-> k, value |-> value,
                     item |-> store[KeyHash(k)].gen]
               ELSE [pc |-> "los", key |-> k, value |-> value]]
    /\ last' = NoOp
    /\ UNCHANGED <<extra, requests, calls, now, store, written, buckets>>

\* Set's store.LoadOrStore: stores the new item and returns, or finds the
\* item another caller stored meanwhile and goes on to insert into it
SetLoadOrStore(p) ==
    /\ setters[p].pc = "los"
    /\ LET k == setters[p].key
           value == setters[p].value
       IN  IF ~store[KeyHash(k)].mapped
           THEN /\ store[KeyHash(k)].gen < MaxGen
                /\ store' = [store EXCEPT ![KeyHash(k)] = NewItem(@.gen, value)]
                /\ setters' = [setters EXCEPT ![p] = Idle]
                /\ written' = written \cup {Written(k, value)}
                /\ last' = [op |-> "Set", key |-> k, value |-> value.value,
                            again |-> Written(k, value) \in written]
           ELSE /\ setters' = [setters EXCEPT ![p] =
                       [pc |-> "insert", key |-> k, value |-> value,
                        item |-> store[KeyHash(k)].gen]]
                /\ last' = NoOp
                /\ UNCHANGED <<store, written>>
    /\ UNCHANGED <<extra, requests, calls, now, buckets>>

\* Set's item.insert on the item it holds
SetInsert(p) ==
    /\ setters[p].pc = "insert"
    /\ LET k == setters[p].key
       IN  store' = IF store[KeyHash(k)].mapped /\ store[KeyHash(k)].gen = setters[p].item
                    THEN [store EXCEPT ![KeyHash(k)] = ItemInsert(@, setters[p].value)]
                    ELSE store
    /\ setters' = [setters EXCEPT ![p] = Idle]
    /\ written' = written \cup {Written(setters[p].key, setters[p].value)}
    /\ last' = [op |-> "Set", key |-> setters[p].key, value |-> setters[p].value.value,
                again |-> Written(setters[p].key, setters[p].value) \in written]
    /\ UNCHANGED <<extra, requests, calls, now, buckets>>

\* a caller reads the storage
StorageGet(k, from) ==
    /\ last' = [op |-> "Get", key |-> k, from |-> from,
                result |-> Get(store, k, from)]
    /\ UNCHANGED <<extra, requests, calls, now, store, setters, written, buckets>>

\* storage.cleanup: one pass of the sweeper
Cleanup ==
    /\ store' = CleanupMap(store, now)
    /\ last' = [op |-> "cleanup", live |-> LiveValues(store, now)]
    /\ UNCHANGED <<extra, requests, calls, now, setters, written, buckets>>

Tick ==
    /\ now < MaxTime
    /\ now' = now + 1
    /\ last' = NoOp
    /\ UNCHANGED <<extra, requests, calls, store, setters, written, buckets>>

\* a nil *node
Nil == [id |-> -1]

\* newRoutingTable: KEY_BITS buckets, each with K nil slots, no expiry set
EmptyBuckets == [b \in 0 .. KEY_BITS - 1 |->
                    [size |-> 0, expiry |-> 0, nodes |-> [i \in 1 .. K |-> Nil],
                     cache |-> <<>>, panic |-> FALSE]]

StorageInit ==
    /\ now = 1
    /\ store = [k \in UserKeys |-> NoItem(0)]
    /\ setters = [p \in 1 .. NumSetters |-> Idle]
    /\ written = {}
    /\ buckets = EmptyBuckets
    /\ requests = <<>>
    /\ calls = <<>>
    /\ journey = Nil
    /\ walked = <<>>
    /\ packets = <<>>
    /\ wire = <<>>
    /\ boot = <<>>
    /\ tasks = <<>>
    /\ threads = <<>>
    /\ last = NoOp

\* the storage used by one caller at a time, with the clock and the sweeper
StorageNext ==
    \/ \E k \in UserKeys, v \in UserValues,
          created \in 1 .. MaxCreated, ttl \in 1 .. MaxTTL : Set(k, v, created, ttl)
    \/ \E k \in UserKeys, from \in 0 .. MaxCreated : StorageGet(k, from)
    \/ Cleanup
    \/ Tick

StorageSpec == StorageInit /\ [][StorageNext]_vars

\* concurrent callers of Set, with the sweeper, at one instant
SetNext ==
    \/ \E p \in 1 .. NumSetters, k \in UserKeys, v \in UserValues :
            SetLoad(p, k, v, now, 1)
    \/ \E p \in 1 .. NumSetters : SetLoadOrStore(p)
    \/ \E p \in 1 .. NumSetters : SetInsert(p)
    \/ \E k \in UserKeys : StorageGet(k, 0)
    \/ Cleanup

SetSpec == StorageInit /\ [][SetNext]_vars

----------------------------------------------------------------------------
(***************************************************************************)
(* The routing table and its buckets.  A bucket keeps its K slots as the   *)
(* source does: the live nodes are the first `size` slots, the slots past  *)
(* them hold nil or what a removal left behind.  panic records the         *)
(* run-time panic of an index past the slots.                              *)
(***************************************************************************)

\* the id of the local node, Config.LocalID
LocalID == 0

\* bit i (0 = most significant) of a KEY_BITS-bit id
Bit(x, i) == (x \div (2 ^ (KEY_BITS - 1 - i))) % 2

\* distance with a loop that stops before the last bit
distanceShort(localID, targetID) ==
    LET diff == {i \in 0 .. KEY_BITS - 2 : Bit(localID, i) # Bit(targetID, i)}
    IN  IF diff = {} THEN KEY_BITS - 1
        ELSE CHOOSE i \in diff : \A j \in diff : i <= j

\* distance: the number of leading bits two ids have in common
distance(localID, targetID) ==
    LET diff == {i \in 0 .. KEY_BITS - 1 : Bit(localID, i) # Bit(targetID, i)}
    IN  IF diff = {} THEN KEY_BITS
        ELSE CHOOSE i \in diff : \A j \in diff : i <= j

\* bucketID that takes the length of the common prefix for the bucket
bucketIDByPrefix(localID, targetID) ==
    distance(localID, targetID) % KEY_BITS

\* bucketID: the bucket of a node, from its distance to the local node
bucketID(localID, targetID) ==
    LET d == KEY_BITS - distance(localID, targetID)
    IN  IF d = 0 THEN d ELSE d - 1

\* the live nodes of a bucket, in slot order (what bucket.iterate visits)
Live(b) == [i \in 1 .. b.size |-> b.nodes[i]]

LiveIDs(b) == {b.nodes[i].id : i \in 1 .. b.size}

CacheIDs(b) == {b.cache[i].id : i \in 1 .. Len(b.cache)}

\* bucket.full, changed: tests for more than K nodes
BucketFullOver(b) == b.size = K + 1

\* bucket.full
BucketFull(b) == b.size = K

\* bucket.remove: scans the live slots from the last, shifts the slots after
\* the match one to the left (the last slot keeps its content) and returns
\* the node, or nil
BucketRemove(b, nodeID) ==
    LET hits == {i \in 1 .. b.size : b.nodes[i].id = nodeID}
    IN  IF hits = {} THEN [bucket |-> b, node |-> Nil]
        ELSE LET i == CHOOSE h \in hits : \A g \in hits : g <= h
             IN  [bucket |-> [b EXCEPT
                        !.nodes = [j \in 1 .. K |->
                                      IF j >= i /\ j < K THEN b.nodes[j + 1] ELSE b.nodes[j]],
                        !.size = @ - 1],
                  node |-> b.nodes[i]]

\* bucket.stash: refreshes the cached node of that id, else appends
Stash(b, n, t) ==
    LET hits == {i \in 1 .. Len(b.cache) : b.cache[i].id = n.id}
    IN  IF hits # {}
        THEN [b EXCEPT !.cache[CHOOSE i \in hits : \A j \in hits : i <= j].seen = t]
        ELSE [b EXCEPT !.cache = Append(@, n)]

RECURSIVE StaleScan(_, _, _, _, _)
\* the loop of bucket.insert looking for a stale entry, from slot i on; si is
\* the slot found so far (0: none).  The time test reads the NEW node's seen.
StaleScan(b, n, t, i, si) ==
    IF i > b.size THEN si
    ELSE LET en == b.nodes[i]
             nsi == IF t > n.seen + b.expiry
                    THEN IF si = 0 /\ en.pending > 1 THEN i
                         ELSE IF si # 0 /\ en.pending > b.nodes[si].pending THEN i
                         ELSE si
                    ELSE si
         IN  StaleScan(b, n, t, i + 1, nsi)

\* bucket.insert at time t
BucketInsert(b, id, address, latency, t) ==
    LET r == BucketRemove(b, id)
        n == [id |-> id, address |-> address, latency |-> latency,
              seen |-> 0, pending |-> 0]
    IN  IF r.node # Nil
        THEN [r.bucket EXCEPT
                 !.nodes[r.bucket.size + 1] = [r.node EXCEPT !.seen = t, !.latency = latency],
                 !.size = @ + 1]
        ELSE IF ~BucketFull(b)
        THEN [b EXCEPT !.nodes[b.size + 1] = [n EXCEPT !.seen = t], !.size = @ + 1]
        ELSE LET si == StaleScan(b, n, t, 1, 0)
             IN  IF si # 0
                 THEN \* copy(b.nodes[si:], b.nodes[si+1:]), then b.nodes[b.size] = n
                      \* with size = K = len(nodes): index out of range
                      [b EXCEPT !.nodes = [j \in 1 .. K |->
                                    IF j >= si /\ j < K THEN b.nodes[j + 1] ELSE b.nodes[j]],
                                !.panic = TRUE]
                 ELSE Stash(b, n, t)

\* bucket.get: the live node of that id, else the cached one, else nil
BucketGet(b, nodeID) ==
    IF nodeID \in LiveIDs(b)
    THEN b.nodes[CHOOSE i \in 1 .. b.size :
                    b.nodes[i].id = nodeID /\ \A j \in 1 .. i - 1 : b.nodes[j].id # nodeID]
    ELSE IF nodeID \in CacheIDs(b)
    THEN b.cache[CHOOSE i \in 1 .. Len(b.cache) :
                    b.cache[i].id = nodeID /\ \A j \in 1 .. i - 1 : b.cache[j].id # nodeID]
    ELSE Nil

\* bucket.seen: sets seen of the node bucket.get finds
BucketSeen(b, nodeID, t) ==
    IF nodeID \in LiveIDs(b)
    THEN [b EXCEPT !.nodes[CHOOSE i \in 1 .. b.size :
                    b.nodes[i].id = nodeID /\ \A j \in 1 .. i - 1 : b.nodes[j].id # nodeID].seen = t]
    ELSE IF nodeID \in CacheIDs(b)
    THEN [b EXCEPT !.cache[CHOOSE i \in 1 .. Len(b.cache) :
                    b.cache[i].id = nodeID /\ \A j \in 1 .. i - 1 : b.cache[j].id # nodeID].seen = t]
    ELSE b

\* routingTable.insert / seen / remove on the table bs
RTInsert(bs, id, address, latency, t) ==
    [bs EXCEPT ![bucketID(LocalID, id)] = BucketInsert(@, id, address, latency, t)]

RTSeen(bs, id, t) == [bs EXCEPT ![bucketID(LocalID, id)] = BucketSeen(@, id, t)]

RTKnown(bs, id) == BucketGet(bs[bucketID(LocalID, id)], id) # Nil

RTRemove(bs, id) == [bs EXCEPT ![bucketID(LocalID, id)] = BucketRemove(@, id).bucket]

RECURSIVE InsertSorted(_, _, _)
\* insertion of n into the list s sorted by decreasing distance to key,
\* after the nodes at the same distance
InsertSorted(s, n, key) ==
    IF s = <<>> THEN <<n>>
    ELSE IF distance(n.id, key) > distance(Head(s).id, key) THEN <<n>> \o s
    ELSE <<Head(s)>> \o InsertSorted(Tail(s), n, key)

\* closestN without its sort: the nodes in the order of the scan
Unsorted(nodes, key) == SubSeq(nodes, 1, Len(nodes))

RECURSIVE SortByDistance(_, _)
\* sort.Slice(nodes, distance descending); on the short lists of the model
\* the library sorts by insertion, which keeps the order of equal elements
SortByDistance(nodes, key) ==
    IF nodes = <<>> THEN <<>>
    ELSE InsertSorted(SortByDistance(SubSeq(nodes, 1, Len(nodes) - 1), key),
                      nodes[Len(nodes)], key)

RECURSIVE ScanN(_, _, _, _, _, _)
\* the scan of closestN: from the key's bucket outwards, +1, -1, +2, -2, ...,
\* until count nodes were gathered or every bucket was scanned
ScanN(bs, offset, i, scanned, nodes, count) ==
    LET inRange == offset > -1 /\ offset < KEY_BITS
        got == IF inRange THEN nodes \o Live(bs[offset]) ELSE nodes
        sc == IF inRange THEN scanned + 1 ELSE scanned
    IN  IF inRange /\ Len(got) >= count THEN got
        ELSE IF sc >= KEY_BITS THEN got
        ELSE ScanN(bs, IF i % 2 = 0 THEN offset + i + 1 ELSE offset - i - 1,
                   i + 1, sc, got, count)

\* routingTable.closestN
closestN(bs, id, count) ==
    LET nodes == SortByDistance(
                     ScanN(bs, bucketID(LocalID, id), 0, 0, <<>>, count), id)
    IN  IF Len(nodes) < count THEN nodes ELSE SubSeq(nodes, 1, count)

RECURSIVE BestOf(_, _, _, _, _)
\* the callback of closest over the live nodes of one bucket
BestOf(ns, i, id, cd, cn) ==
    IF i > Len(ns) THEN cn
    ELSE LET nd == distance(ns[i].id, id)
         IN  IF cd = 0 \/ nd > cd THEN BestOf(ns, i + 1, id, nd, ns[i])
             ELSE BestOf(ns, i + 1, id, cd, cn)

RECURSIVE ScanOne(_, _, _, _, _)
\* the scan of closest: the best node of the first bucket that has one
ScanOne(bs, offset, i, scanned, id) ==
    LET inRange == offset > -1 /\ offset < KEY_BITS
        cn == IF inRange THEN BestOf(Live(bs[offset]), 1, id, 0, Nil) ELSE Nil
        sc == IF inRange THEN scanned + 1 ELSE scanned
    IN  IF cn # Nil THEN cn
        ELSE IF sc >= KEY_BITS THEN Nil
        ELSE ScanOne(bs, IF i % 2 = 0 THEN offset + i + 1 ELSE offset - i - 1,
                     i + 1, sc, id)

\* routingTable.closest
closest(bs, id) == ScanOne(bs, bucketID(LocalID, id), 0, 0, id)

\* routingTable.neighbours
neighbours(bs) ==
    LET RECURSIVE Sum(_)
        Sum(i) == IF i < 0 THEN 0 ELSE bs[i].size + Sum(i - 1)
    IN  Sum(KEY_BITS - 1)

\* every live node of the table
AllLive(bs) == UNION {Range(Live(bs[i])) : i \in 0 .. KEY_BITS - 1}

\* the ids the model's peers take: the local node, one id of the next bucket
\* but one and K+1 ids of the farthest bucket (one more than the bucket holds)
NodeIDs == {LocalID, 2} \cup {2 ^ (KEY_BITS - 1) + i : i \in 0 .. K}

\* a member of a bucket that bucket.insert is meant to evict: waited for more
\* than once and not seen for longer than the bucket's expiry
HasStale(b, t) == \E i \in 1 .. b.size : b.nodes[i].pending > 1 /\ t > b.nodes[i].seen + b.expiry

Insert(id) ==
    /\ buckets' = RTInsert(buckets, id, id, 0, now)
    /\ last' = [op |-> "insert", id |-> id,
                full |-> BucketFull(buckets[bucketID(LocalID, id)]),
                live |-> id \in LiveIDs(buckets[bucketID(LocalID, id)]),
                stale |-> HasStale(buckets[bucketID(LocalID, id)], now),
                before |-> Live(buckets[bucketID(LocalID, id)])]
    /\ UNCHANGED <<extra, requests, calls, now, store, setters, written>>

Seen(id) ==
    /\ buckets' = RTSeen(buckets, id, now)
    /\ last' = [op |-> "seen", id |-> id, result |-> RTKnown(buckets, id)]
    /\ UNCHANGED <<extra, requests, calls, now, store, setters, written>>

Remove(id) ==
    /\ buckets' = RTRemove(buckets, id)
    /\ last' = [op |-> "remove", id |-> id]
    /\ UNCHANGED <<extra, requests, calls, now, store, setters, written>>

ClosestN(key, count) ==
    /\ last' = [op |-> "closestN", key |-> key, count |-> count,
                result |-> closestN(buckets, key, count)]
    /\ UNCHANGED <<extra, requests, calls, now, store, setters, written, buckets>>

Closest(key) ==
    /\ last' = [op |-> "closest", key |-> key, result |-> closest(buckets, key)]
    /\ UNCHANGED <<extra, requests, calls, now, store, setters, written, buckets>>

RoutingInit ==
    /\ now = 1
    /\ store = [k \in UserKeys |-> NoItem(0)]
    /\ setters = [p \in 1 .. NumSetters |-> Idle]
    /\ written = {}
    /\ buckets = EmptyBuckets
    /\ requests = <<>>
    /\ calls = <<>>
    /\ journey = Nil
    /\ walked = <<>>
    /\ packets = <<>>
    /\ wire = <<>>
    /\ boot = <<>>
    /\ tasks = <<>>
    /\ threads = <<>>
    /\ last = NoOp

RoutingNext ==
    \/ \E id \in NodeIDs : Insert(id)
    \/ \E id \in NodeIDs : Seen(id)
    \/ \E id \in NodeIDs : Remove(id)
    \/ \E key \in IDs, count \in 1 .. K : ClosestN(key, count)
    \/ \E key \in IDs : Closest(key)

RoutingSpec == RoutingInit /\ [][RoutingNext]_vars

----------------------------------------------------------------------------
(***************************************************************************)
(* The journey of a lookup: the routes still to query, the nodes visited,  *)
(* the values seen and the count of requests in flight.  nodes holds the   *)
(* first `routes` slots of the source's array, the only ones it reads.     *)
(***************************************************************************)

\* newJourney
newJourney(source, destination, iterations) ==
    [source |-> source, destination |-> destination, visited |-> {},
     values |-> {}, outstandingKeys |-> {}, outstanding |-> [id \in IDs |-> 0],
     nodes |-> <<>>, remaining |-> iterations, inflight |-> 0, completed |-> FALSE]

\* the body of the loop of journey.add, changed: the visited set is not asked
jAddOneUnchecked(j, n) ==
    IF n.id = j.source THEN j
    ELSE IF Len(j.nodes) < K
    THEN [j EXCEPT !.visited = @ \cup {n.id}, !.nodes = Append(@, n)]
    ELSE j

\* the body of the loop of journey.add, for the node n
jAddOne(j, n) ==
    LET d == distance(n.id, j.destination)
        worse == {i \in 1 .. Len(j.nodes) : distance(j.nodes[i].id, j.destination) < d}
    IN  IF n.id = j.source THEN j
        ELSE IF n.id \in j.visited THEN j
        ELSE IF Len(j.nodes) < K
        THEN [j EXCEPT !.visited = @ \cup {n.id}, !.nodes = Append(@, n)]
        ELSE IF worse = {} THEN [j EXCEPT !.visited = @ \cup {n.id}]
        ELSE LET i == CHOOSE w \in worse : \A x \in worse : w <= x
             IN  [j EXCEPT !.visited = (@ \cup {n.id}) \ {j.nodes[i].id},
                           !.nodes[i] = n]

RECURSIVE jAdd(_, _)
\* journey.add
jAdd(j, nodes) ==
    IF nodes = <<>> THEN j ELSE jAdd(jAddOne(j, Head(nodes)), Tail(nodes))

\* journey.Less: closer to the destination first, then the lower latency
jLess(j, x, y) ==
    IF distance(x.id, j.destination) # distance(y.id, j.destination)
    THEN distance(x.id, j.destination) > distance(y.id, j.destination)
    ELSE x.latency < y.latency

RECURSIVE jInsertSorted(_, _, _)
jInsertSorted(j, s, n) ==
    IF s = <<>> THEN <<n>>
    ELSE IF jLess(j, n, Head(s)) THEN <<n>> \o s
    ELSE <<Head(s)>> \o jInsertSorted(j, Tail(s), n)

\* sort.Sort(j) left out: the routes in the order they were added
jUnsorted(j, s) == SubSeq(s, 1, Len(s))

RECURSIVE jSort(_, _)
\* sort.Sort(j): an insertion sort on the short lists of the model
jSort(j, s) ==
    IF s = <<>> THEN <<>>
    ELSE jInsertSorted(j, jSort(j, SubSeq(s, 1, Len(s) - 1)), s[Len(s)])

\* journey.next, changed: the nodes handed out are not counted as in flight
jNextUncounted(j, count) ==
    IF j.remaining = 0 \/ Len(j.nodes) = 0 \/ j.completed
    THEN [j |-> j, next |-> <<>>]
    ELSE LET available == IF Len(j.nodes) < count THEN Len(j.nodes) ELSE count
             sorted == jSort(j, j.nodes)
         IN  [j |-> [j EXCEPT !.remaining = @ - 1,
                              !.nodes = SubSeq(sorted, available + 1, Len(sorted))],
              next |-> SubSeq(sorted, 1, available)]

\* journey.next: the best `count` routes, taken off the list; <<>> is nil
jNext(j, count) ==
    IF j.remaining = 0 \/ Len(j.nodes) = 0 \/ j.completed
    THEN [j |-> j, next |-> <<>>]
    ELSE LET available == IF Len(j.nodes) < count THEN Len(j.nodes) ELSE count
             sorted == jSort(j, j.nodes)
         IN  [j |-> [j EXCEPT !.remaining = @ - 1, !.inflight = @ + available,
                              !.nodes = SubSeq(sorted, available + 1, Len(sorted))],
              next |-> SubSeq(sorted, 1, available)]

RECURSIVE SumOutstanding(_, _)
SumOutstanding(j, ids) ==
    IF ids = {} THEN 0
    ELSE LET x == CHOOSE y \in ids : TRUE
         IN  j.outstanding[x] + SumOutstanding(j, ids \ {x})

\* journey.finish: true to the one caller that completes the journey
jFinish(j, force) ==
    IF force
    THEN IF j.completed THEN [j |-> j, ok |-> FALSE]
         ELSE [j |-> [j EXCEPT !.completed = TRUE], ok |-> TRUE]
    ELSE IF j.completed \/ j.inflight > 0 \/ SumOutstanding(j, j.outstandingKeys) > 0
         THEN [j |-> j, ok |-> FALSE]
         ELSE [j |-> [j EXCEPT !.completed = TRUE], ok |-> TRUE]

\* journey.responseReceived
jResponseReceived(j) ==
    LET j1 == IF j.inflight > 0 THEN [j EXCEPT !.inflight = @ - 1] ELSE j
    IN  [j |-> j1, completed |-> j1.completed,
         shouldError |-> j1.inflight < 1 /\ Len(j1.nodes) < 1]

\* journey.seenValue
jSeenValue(j, value) ==
    IF value \in j.values THEN [j |-> j, seen |-> TRUE]
    ELSE [j |-> [j EXCEPT !.values = @ \cup {value}], seen |-> FALSE]

\* journey.addOutstanding: only the first response of a sender counts
jAddOutstanding(j, from, outstanding) ==
    IF from \in j.outstandingKeys THEN j
    ELSE [j EXCEPT !.outstandingKeys = @ \cup {from}, !.outstanding[from] = outstanding]

\* journey.removeOutstanding
jRemoveOutstanding(j, from, received) ==
    [j EXCEPT !.outstandingKeys = @ \cup {from}, !.outstanding[from] = @ - received]

----------------------------------------------------------------------------
(***************************************************************************)
(* The DHT: Store and Find, the cache of pending requests and the          *)
(* callbacks it runs when a response arrives or a request times out.       *)
(* Remote nodes are not modelled: what they answer is drawn from a small   *)
(* set of responses.  A node's address is written as the id of the node    *)
(* that listens on it.                                                     *)
(***************************************************************************)

\* Config.Timeout in ticks of the clock
Timeout == 1

\* the number of routes Find asks journey.next for (3 in the source)
NextCount == 2

\* bounds on the calls made and on the responses delivered to one request
MaxCalls == 2
MaxResponses == 2

ErrRequestTimeout == "request timeout"

ErrSocket == "write failed"

\* what a user callback was invoked with; "nil" for a nil value or error
Result(value, err) == [value |-> value, err |-> err]

\* the entry cache.set registers for a request to node n; sent is false when
\* the write to the socket failed after the entry was registered; got counts
\* the responses dispatched to it, replied tells that one came by its deadline
NewRequest(kind, c, n, t, sent) ==
    [kind |-> kind, call |-> c, id |-> n.id, to |-> n.address,
     ttl |-> t + Timeout, sent |-> sent, got |-> 0, replied |-> FALSE]

RemoveAt(s, i) == SubSeq(s, 1, i - 1) \o SubSeq(s, i + 1, Len(s))

\* the length check of Store and Find, changed: every key passes
KeyLenAny(keylen) == keylen = keylen

\* the length check of Store and Find on the key
KeyLenOK(keylen) == keylen = KEY_BYTES

\* the length check of Store on the value
ValueLenOK(vlen) == ~(vlen > VALUE_BYTES)

\* listener.process on a packet of sender: refresh the node or insert it
ProcessSender(bs, sender, t) ==
    IF RTKnown(bs, sender) THEN RTSeen(bs, sender, t)
    ELSE RTInsert(bs, sender, sender, 0, t)

NewCall(op, key, value, expires) ==
    [op |-> op, key |-> key, value |-> value, expires |-> expires,
     rejected |-> FALSE, hit |-> FALSE, ns |-> <<>>, r |-> 0, j |-> Nil, cb |-> <<>>]

RECURSIVE StoreLoop(_, _, _, _, _, _, _)
\* the loop of Store over the nodes ns from position i; fail is the position
\* of the request whose write fails (0: none)
StoreLoop(acc, ns, i, c, key, value, fail) ==
    IF i > Len(ns) THEN acc
    ELSE IF ns[i].id = LocalID
    THEN LET a1 == [acc EXCEPT !.store = SetAtomic(@, key, value),
                               !.written = @ \cup {Written(key, value)}]
         IN  IF Len(ns) = 1
             THEN [a1 EXCEPT !.cb = Append(@, Result("nil", "nil"))]
             ELSE StoreLoop(a1, ns, i + 1, c, key, value, fail)
    ELSE LET a1 == [acc EXCEPT !.requests =
                        Append(@, NewRequest("store", c, ns[i], now, i # fail))]
         IN  IF i = fail
             THEN [a1 EXCEPT !.cb = Append(@, Result("nil", ErrSocket))]
             ELSE StoreLoop(a1, ns, i + 1, c, key, value, fail)

\* DHT.Store
Store(key, keylen, v, vlen, ttl, fail) ==
    /\ Len(calls) < MaxCalls
    /\ store[KeyHash(key)].mapped \/ store[KeyHash(key)].gen < MaxGen
    /\ LET c == Len(calls) + 1
           ns == closestN(buckets, key, K)
           call == NewCall("Store", key, v, now + ttl)
       IN  IF ~KeyLenOK(keylen)
           THEN /\ fail = 0
                /\ calls' = Append(calls, [call EXCEPT !.rejected = TRUE,
                        !.cb = <<Result("nil", "key must be 20 bytes in length")>>])
                /\ UNCHANGED <<store, written, requests>>
           ELSE IF ~ValueLenOK(vlen)
           THEN /\ fail = 0
                /\ calls' = Append(calls, [call EXCEPT !.rejected = TRUE,
                        !.cb = <<Result("nil", "value must be less than 32kb in length")>>])
                /\ UNCHANGED <<store, written, requests>>
           ELSE IF Len(ns) < 1
           THEN /\ fail = 0
                /\ calls' = Append(calls, [call EXCEPT
                        !.cb = <<Result("nil", "no nodes found")>>])
                /\ UNCHANGED <<store, written, requests>>
           ELSE /\ fail \in {0} \cup {i \in 1 .. Len(ns) : ns[i].id # LocalID}
                /\ LET a == StoreLoop([store |-> store, written |-> written,
                                       requests |-> requests, cb |-> <<>>],
                                      ns, 1, c, key, NewValue(v, now, ttl), fail)
                   IN  /\ store' = a.store
                       /\ written' = a.written
                       /\ requests' = a.requests
                       /\ calls' = Append(calls, [call EXCEPT
                              !.ns = [i \in 1 .. Len(ns) |-> ns[i].id], !.cb = a.cb])
    /\ last' = [op |-> "Store", call |-> Len(calls) + 1, key |-> key,
                keylen |-> keylen, vlen |-> vlen,
                single |-> {n.id : n \in AllLive(buckets)} = {LocalID}]
    /\ UNCHANGED <<extra, now, setters, buckets>>

\* a response to a STORE request arrives: listener.process, then the callback
\* Store registered, whose true has the cache delete the entry
StoreResponse(i) ==
    /\ requests[i].kind = "store"
    /\ requests[i].sent
    /\ LET c == requests[i].call
           r == calls[c].r + 1
       IN  calls' = [calls EXCEPT ![c].r = r,
                        ![c].cb = IF r = Len(calls[c].ns) - 1
                                  THEN Append(@, Result("nil", "nil")) ELSE @]
    /\ buckets' = ProcessSender(buckets, requests[i].to, now)
    /\ requests' = RemoveAt(requests, i)
    /\ last' = [op |-> "response", call |-> requests[i].call]
    /\ UNCHANGED <<extra, now, store, setters, written>>

RECURSIVE FindSend(_, _, _, _, _)
\* the loop of Find over the routes ns from position i: registers and sends a
\* request each, and stops with the error at the write that fails
FindSend(acc, ns, i, c, fail) ==
    IF i > Len(ns) THEN acc
    ELSE LET a1 == [acc EXCEPT !.requests =
                        Append(@, NewRequest("findValue", c, ns[i], now, i # fail))]
         IN  IF i = fail
             THEN [a1 EXCEPT !.cb = Append(@, Result("nil", ErrSocket))]
             ELSE FindSend(a1, ns, i + 1, c, fail)

\* DHT.Find
Find(key, keylen, from, fail) ==
    /\ Len(calls) < MaxCalls
    /\ LET c == Len(calls) + 1
           call == NewCall("Find", key, "nil", 0)
           got == Get(store, key, from)
           ns == closestN(buckets, key, K)
           nx == jNext(jAdd(newJourney(LocalID, key, K), ns), NextCount)
       IN  IF ~KeyLenOK(keylen)
           THEN /\ fail = 0
                /\ calls' = Append(calls, [call EXCEPT !.rejected = TRUE,
                        !.cb = <<Result("nil", "key must be 20 bytes in length")>>])
                /\ UNCHANGED requests
           ELSE IF got.ok
           THEN /\ fail = 0
                /\ calls' = Append(calls, [call EXCEPT !.hit = TRUE,
                        !.cb = [i \in 1 .. Len(got.values) |->
                                   Result(got.values[i].value, "nil")]])
                /\ UNCHANGED requests
           ELSE IF Len(ns) = 0
           THEN /\ fail = 0
                /\ calls' = Append(calls, [call EXCEPT
                        !.cb = <<Result("nil", "no nodes found")>>])
                /\ UNCHANGED requests
           ELSE /\ fail \in 0 .. Len(nx.next)
                /\ LET a == FindSend([requests |-> requests, cb |-> <<>>],
                                     nx.next, 1, c, fail)
                   IN  /\ requests' = a.requests
                       /\ calls' = Append(calls, [call EXCEPT
                              !.ns = [i \in 1 .. Len(ns) |-> ns[i].id],
                              !.j = nx.j, !.cb = a.cb])
    /\ last' = [op |-> "Find", call |-> Len(calls) + 1, key |-> key,
                keylen |-> keylen, vlen |-> 0,
                single |-> {n.id : n \in AllLive(buckets)} = {LocalID}]
    /\ UNCHANGED <<extra, now, store, setters, written, buckets>>

RECURSIVE DeliverValues(_, _, _)
\* the loop of findValueCallback over the values of a response: the user
\* callback gets every value the journey has not seen
DeliverValues(acc, values, i) ==
    IF i > Len(values) THEN acc
    ELSE LET sv == jSeenValue(acc.j, values[i])
         IN  DeliverValues([j |-> sv.j,
                            cb |-> IF sv.seen THEN acc.cb
                                   ELSE Append(acc.cb, Result(values[i], "nil"))],
                           values, i + 1)

RECURSIVE CallbackSend(_, _, _, _, _, _)
\* the loop of findValueCallback over the next routes ns from position i;
\* fails are the positions whose write fails
CallbackSend(acc, ns, i, c, t, fails) ==
    IF i > Len(ns) THEN acc
    ELSE LET a1 == [acc EXCEPT !.sends =
                        Append(@, NewRequest("findValue", c, ns[i], t, i \notin fails))]
             fin == jFinish(a1.j, FALSE)
         IN  IF i \in fails /\ fin.ok
             THEN [a1 EXCEPT !.j = fin.j, !.cb = Append(@, Result("nil", ErrSocket)),
                             !.ret = TRUE]
             ELSE CallbackSend(a1, ns, i + 1, c, t, fails)

\* the callback findValueCallback(id, ...) returns, run for the call c on the
\* routing table bs with a response event or an error ("nil": none); yields
\* the table, the call, the requests it registered and what it returned
findValueCallback(bs, c, call, id, event, err, t, fails) ==
    LET bs1 == IF err = ErrRequestTimeout THEN RTRemove(bs, id) ELSE bs
        rr == jResponseReceived(call.j)
        Out(j, cb, sends, ret) ==
            [buckets |-> bs1, call |-> [call EXCEPT !.j = j, !.cb = cb],
             sends |-> sends, ret |-> ret]
    IN  IF rr.completed THEN Out(rr.j, call.cb, <<>>, TRUE)
        ELSE IF err # "nil"
        THEN IF rr.shouldError
             THEN Out(rr.j, Append(call.cb, Result("nil", err)), <<>>, TRUE)
             ELSE Out(rr.j, call.cb, <<>>, FALSE)
        ELSE IF ~event.payload
        THEN Out(rr.j, Append(call.cb,
                     Result("nil", "invalid response to find value request")), <<>>, FALSE)
        ELSE IF Len(event.values) > 0
        THEN LET j2 == jRemoveOutstanding(
                           jAddOutstanding(rr.j, event.sender, event.found),
                           event.sender, Len(event.values))
                 dv == DeliverValues([j |-> j2, cb |-> call.cb], event.values, 1)
                 fin == jFinish(dv.j, FALSE)
             IN  Out(fin.j, dv.cb, <<>>, fin.ok)
        ELSE IF Len(event.nodes) < 1
        THEN LET fin == jFinish(rr.j, FALSE)
             IN  IF fin.ok
                 THEN Out(fin.j, Append(call.cb, Result("nil", "value not found")), <<>>, TRUE)
                 ELSE Out(fin.j, call.cb, <<>>, FALSE)
        ELSE LET \* every new node is given the id of the node that answered
                 newNodes == [i \in 1 .. Len(event.nodes) |->
                                 [id |-> id, address |-> event.nodes[i], latency |-> 0,
                                  seen |-> 0, pending |-> 0]]
                 nx == jNext(jAdd(rr.j, newNodes), NextCount)
                 fin == jFinish(nx.j, FALSE)
                 cs == CallbackSend([j |-> nx.j, cb |-> call.cb, sends |-> <<>>,
                                     ret |-> FALSE], nx.next, 1, c, t, fails)
             IN  IF nx.next = <<>>
                 THEN IF fin.ok
                      THEN Out(fin.j, Append(call.cb, Result("nil", "value not found")),
                               <<>>, TRUE)
                      ELSE Out(fin.j, call.cb, <<>>, FALSE)
                 ELSE Out(cs.j, cs.cb, cs.sends, cs.ret)

\* a response to a FIND_VALUE request arrives: listener.process, then the
\* callback; the cache deletes the entry when the callback returns true
FindValueResponse(i, event, fails) ==
    /\ requests[i].kind = "findValue"
    /\ requests[i].sent
    /\ requests[i].got < MaxResponses
    /\ event.sender = requests[i].to
    /\ LET c == requests[i].call
           o == findValueCallback(ProcessSender(buckets, requests[i].to, now), c,
                                  calls[c], requests[i].id, event, "nil", now, fails)
       IN  /\ fails \subseteq 1 .. Len(o.sends)
           /\ buckets' = o.buckets
           /\ calls' = [calls EXCEPT ![c] = o.call]
           /\ requests' = (IF o.ret THEN RemoveAt(requests, i)
                           ELSE [requests EXCEPT ![i].got = @ + 1,
                                    ![i].replied = @ \/ now <= requests[i].ttl])
                              \o o.sends
    /\ last' = [op |-> "response", call |-> requests[i].call, id |-> requests[i].id,
                ignored |-> jResponseReceived(calls[requests[i].call].j).completed,
                fresh |-> IF event.payload /\ event.values = <<>>
                          THEN Range(event.nodes)
                                  \ (calls[requests[i].call].j.visited \cup {LocalID})
                          ELSE {}]
    /\ UNCHANGED <<extra, now, store, setters, written>>

\* cache.cleanup reaches the entry i, which is past its ttl: its callback
\* gets ErrRequestTimeout and the entry is deleted
CacheCleanup(i) ==
    /\ now > requests[i].ttl
    /\ LET c == requests[i].call
           o == findValueCallback(buckets, c, calls[c], requests[i].id, Nil,
                                  ErrRequestTimeout, now, {})
       IN  IF requests[i].kind = "store"
           THEN /\ calls' = [calls EXCEPT
                        ![c].cb = Append(@, Result("nil", ErrRequestTimeout))]
                /\ requests' = RemoveAt(requests, i)
                /\ UNCHANGED buckets
           ELSE /\ calls' = [calls EXCEPT ![c] = o.call]
                /\ requests' = RemoveAt(requests, i) \o o.sends
                /\ buckets' = o.buckets
    /\ last' = [op |-> "timeout", call |-> requests[i].call, kind |-> requests[i].kind,
                id |-> requests[i].id, replied |-> requests[i].replied,
                known |-> requests[i].id \in {n.id : n \in AllLive(buckets)}]
    /\ UNCHANGED <<extra, now, store, setters, written>>

RECURSIVE InsertAll(_, _, _)
\* the table after routing.insert of the ids, in increasing order, at time t
InsertAll(bs, ids, t) ==
    IF ids = {} THEN bs
    ELSE LET id == CHOOSE x \in ids : \A y \in ids : x <= y
         IN  InsertAll(RTInsert(bs, id, id, 0, t), ids \ {id}, t)

\* the peers a node may know when the model starts
Peers == {2, 2 ^ (KEY_BITS - 1), 2 ^ (KEY_BITS - 1) + 1}

\* the responses a node at address sender may give to a FIND_VALUE request:
\* one without payload, one value (all there is, or the first of two), a
\* node to ask next, and neither values nor nodes
Events(sender) ==
    {[sender |-> sender, payload |-> FALSE, values |-> <<>>, found |-> 0, nodes |-> <<>>],
     [sender |-> sender, payload |-> TRUE, values |-> <<"v">>, found |-> 1, nodes |-> <<>>],
     [sender |-> sender, payload |-> TRUE, values |-> <<"v">>, found |-> 2, nodes |-> <<>>],
     [sender |-> sender, payload |-> TRUE, values |-> <<>>, found |-> 0,
      nodes |-> <<2 ^ (KEY_BITS - 1) + K>>],
     [sender |-> sender, payload |-> TRUE, values |-> <<>>, found |-> 0, nodes |-> <<>>]}

\* DHT.New: the routing table holds the local node, and the peers learnt
DHTInit ==
    /\ now = 1
    /\ store = [k \in UserKeys |-> NoItem(0)]
    /\ setters = [p \in 1 .. NumSetters |-> Idle]
    /\ written = {}
    /\ buckets \in {InsertAll(EmptyBuckets, {LocalID} \cup S, 1) : S \in SUBSET Peers}
    /\ requests = <<>>
    /\ calls = <<>>
    /\ journey = Nil
    /\ walked = <<>>
    /\ packets = <<>>
    /\ wire = <<>>
    /\ boot = <<>>
    /\ tasks = <<>>
    /\ threads = <<>>
    /\ last = NoOp

\* a bound on the Find calls of the lookups that get answers
MaxFinds == 1

\* a node among peers that acknowledge what they are asked to store, or stay
\* silent; its lookups get no answer
StoreNext ==
    \/ \E key \in UserKeys, keylen \in {KEY_BYTES - 1, KEY_BYTES, KEY_BYTES + 1},
          v \in UserValues, vlen \in {VALUE_BYTES, VALUE_BYTES + 1},
          ttl \in 1 .. MaxTTL, fail \in 0 .. K :
            Store(key, keylen, v, vlen, ttl, fail)
    \/ \E key \in UserKeys, keylen \in {KEY_BYTES - 1, KEY_BYTES, KEY_BYTES + 1},
          fail \in 0 .. NextCount :
            Find(key, keylen, 0, fail)
    \/ \E i \in 1 .. Len(requests) : StoreResponse(i)
    \/ \E i \in 1 .. Len(requests) : CacheCleanup(i)
    \/ Tick

StoreSpec == DHTInit /\ [][StoreNext]_vars

\* a node that looks up keys it does not hold, among peers that answer, or
\* stay silent
FindNext ==
    \/ \E key \in UserKeys, keylen \in {KEY_BYTES - 1, KEY_BYTES, KEY_BYTES + 1},
          fail \in 0 .. NextCount :
            Len(calls) < MaxFinds /\ Find(key, keylen, 0, fail)
    \/ \E i \in 1 .. Len(requests), fails \in SUBSET (1 .. NextCount) :
          \E event \in Events(requests[i].to) : FindValueResponse(i, event, fails)
    \/ \E i \in 1 .. Len(requests) : CacheCleanup(i)
    \/ Tick

FindSpec == DHTInit /\ [][FindNext]_vars

\* a node without peers: its routing table holds the local node only
NodeInit ==
    /\ DHTInit
    /\ buckets = InsertAll(EmptyBuckets, {LocalID}, 1)

NodeNext ==
    \/ \E key \in UserKeys, keylen \in {KEY_BYTES - 1, KEY_BYTES, KEY_BYTES + 1},
          v \in UserValues, vlen \in {VALUE_BYTES, VALUE_BYTES + 1},
          ttl \in 1 .. MaxTTL :
            Store(key, keylen, v, vlen, ttl, 0)
    \/ \E key \in UserKeys, keylen \in {KEY_BYTES - 1, KEY_BYTES, KEY_BYTES + 1} :
            Find(key, keylen, 0, 0)
    \/ Cleanup
    \/ Tick

NodeSpec == NodeInit /\ [][NodeNext]_vars

----------------------------------------------------------------------------
(***************************************************************************)
(* A journey driven on its own: any sequence of add and next.              *)
(***************************************************************************)

\* the iterations the journey driven on its own is created with
MaxIterations == 3

\* the ids of the nodes added to it: the source, and ids at every distance
\* from the destinations, two of them at the same distance
JourneyIDs == {LocalID, 1, 3, 4, 5, 7}

\* a node as a response or a routing table hands it to journey.add
NodeOf(id, latency) ==
    [id |-> id, address |-> id, latency |-> latency, seen |-> 0, pending |-> 0]

\* one node per id, the latencies alternating
JourneyNodes == {NodeOf(id, (id \div 2) % 2) : id \in JourneyIDs}

IdsOf(nodes) == [i \in 1 .. Len(nodes) |-> nodes[i].id]

\* journey.add called with nodes; the history notes the ids that lost their
\* place in the frontier
JourneyAdd(nodes) ==
    /\ journey' = jAdd(journey, nodes)
    /\ walked' = [walked EXCEPT !.added = TRUE,
                     !.evicted = @ \cup (Range(IdsOf(journey.nodes))
                                            \ Range(IdsOf(jAdd(journey, nodes).nodes)))]
    /\ last' = [op |-> "add"]
    /\ UNCHANGED <<dhtVars, packetVars, startVars, threadVars>>

\* journey.next called with count; the history keeps what it returned
JourneyNext(count) ==
    /\ journey' = jNext(journey, count).j
    /\ walked' = IF jNext(journey, count).next = <<>> THEN walked
                 ELSE [walked EXCEPT !.added = FALSE,
                          !.batches = Append(@, [ids |-> IdsOf(jNext(journey, count).next),
                                                  added |-> walked.added])]
    /\ last' = [op |-> "next"]
    /\ UNCHANGED <<dhtVars, packetVars, startVars, threadVars>>

JourneyInit ==
    /\ now = 1
    /\ store = [k \in UserKeys |-> NoItem(0)]
    /\ setters = [p \in 1 .. NumSetters |-> Idle]
    /\ written = {}
    /\ buckets = EmptyBuckets
    /\ requests = <<>>
    /\ calls = <<>>
    /\ journey \in {newJourney(LocalID, d, MaxIterations) : d \in UserKeys}
    /\ walked = [batches |-> <<>>, added |-> FALSE, evicted |-> {}]
    /\ packets = <<>>
    /\ wire = <<>>
    /\ boot = <<>>
    /\ tasks = <<>>
    /\ threads = <<>>
    /\ last = NoOp

JourneyStep ==
    \/ \E n \in JourneyNodes : JourneyAdd(<<n>>)
    \/ \E n, m \in JourneyNodes : JourneyAdd(<<n, m>>)
    \/ \E count \in 1 .. K : JourneyNext(count)

JourneySpec == JourneyInit /\ [][JourneyStep]_vars

----------------------------------------------------------------------------
(***************************************************************************)
(* The latency router: the routes to a target, best measured latency       *)
(* first.  A measurement is an input: the latency injected in test mode,   *)
(* the round trip of a ping otherwise, an hour for a ping that failed.     *)
(***************************************************************************)

\* defaultLatencyThreshold, in the unit of the model
Threshold == 2

\* the largest latency measured; at or above Threshold stands for the slow
\* nodes and the hour reported for a ping that failed
MaxLatency == 2

Latencies == 0 .. MaxLatency

RECURSIVE InsertByLatency(_, _)
\* insertion of e into the list s sorted by increasing latency, after the
\* entries of the same latency
InsertByLatency(s, e) ==
    IF s = <<>> THEN <<e>>
    ELSE IF e.latency < Head(s).latency THEN <<e>> \o s
    ELSE <<Head(s)>> \o InsertByLatency(Tail(s), e)

\* GetBestRoutes without its sort: the entries in the order of closestN
UnsortedByLatency(s) == SubSeq(s, 1, Len(s))

RECURSIVE SortByLatency(_)
\* sort.Slice(nodeLatencies, latency ascending)
SortByLatency(s) ==
    IF s = <<>> THEN <<>>
    ELSE InsertByLatency(SortByLatency(SubSeq(s, 1, Len(s) - 1)), s[Len(s)])

RECURSIVE TakeUnder(_, _, _)
\* the loop over the first count entries: the ones under the threshold
TakeUnder(s, i, count) ==
    IF i > count \/ i > Len(s) THEN <<>>
    ELSE (IF s[i].latency < Threshold THEN <<s[i]>> ELSE <<>>)
         \o TakeUnder(s, i + 1, count)

\* latencyRouter.GetBestRoutes; measured[i] is the latency measured for the
\* i-th node of closestN
GetBestRoutes(bs, target, count, measured) ==
    LET nodes == closestN(bs, target, count * 2)
        nodeLatencies == [i \in 1 .. Len(nodes) |->
                            [idx |-> i, id |-> nodes[i].id,
                             latency |-> measured[i]]]
    IN  IF Len(nodes) = 0 THEN <<>>
        ELSE TakeUnder(SortByLatency(nodeLatencies), 1, count)

BestRoutes(target, count) ==
    \E measured \in [1 .. 2 * count -> Latencies] :
        /\ last' = [op |-> "routes", target |-> target, count |-> count,
                    measured |-> measured,
                    result |-> GetBestRoutes(buckets, target, count, measured)]
        /\ UNCHANGED <<extra, requests, calls, now, store, setters, written,
                       buckets>>

\* the nodes the table of the router learns: one of the near bucket, two of
\* the far one
RouteIDs == {2, 2 ^ (KEY_BITS - 1), 2 ^ (KEY_BITS - 1) + 1}

LatencyNext ==
    \/ \E id \in RouteIDs : Insert(id)
    \/ \E target \in UserKeys, count \in 1 .. K : BestRoutes(target, count)

LatencySpec == RoutingInit /\ [][LatencyNext]_vars

----------------------------------------------------------------------------
(***************************************************************************)
(* The packet manager: a payload is cut into fragments that carry the      *)
(* request id, their index (from 1) and the number of fragments; the       *)
(* reassembler keeps, by request id, the fragments that arrived and hands  *)
(* out the packet when the last one missing arrives.  A byte of the        *)
(* payload is a number that tells the request and the position it is from. *)
(***************************************************************************)

\* MaxPayloadSize: the payload bytes one fragment carries
MaxPayloadSize == 2

\* the most fragments of a packet: the count is one byte of the header
MaxFragments == 3

\* the most fragments handed to the reassembler per request id
MaxArrivals == 4

\* the request ids on the wire
PacketIDs == {1, 2}

Payload(id, len) == [i \in 1 .. len |-> 10 * id + i]

Min(a, b) == IF a < b THEN a ELSE b

\* packetManager.needsFragmenting
needsFragmenting(data) == Len(data) > MaxPayloadSize

\* the number of fragments of a payload: one for a payload that fits
FragmentCount(data) ==
    IF needsFragmenting(data)
    THEN (Len(data) + MaxPayloadSize - 1) \div MaxPayloadSize
    ELSE 1

\* packetManager.fragment and packet.next: the fragments in order, the last
\* one possibly short
pmFragment(id, data) ==
    [i \in 1 .. FragmentCount(data) |->
        [id |-> id, idx |-> i, total |-> FragmentCount(data),
         payload |-> SubSeq(data, (i - 1) * MaxPayloadSize + 1,
                            Min(i * MaxPayloadSize, Len(data)))]]

\* no packet under reassembly
NoPacket == [total |-> 0]

\* the packet created on the first fragment received
NewPacket(total) ==
    [total |-> total, got |-> 0, have |-> {},
     slots |-> [i \in 1 .. total |-> <<>>]]

RECURSIVE JoinSlots(_, _)
JoinSlots(slots, i) ==
    IF i > Len(slots) THEN <<>> ELSE slots[i] \o JoinSlots(slots, i + 1)

\* packet.data: the payload of the fragments in the order of their indexes
pmData(p) == JoinSlots(p.slots, 1)

\* a reassembler that takes every fragment for a new one
NeverDuplicate(p, f) == FALSE

\* the fragment is one the packet already holds
IsDuplicate(p, f) == f.idx \in p.have

\* packetManager.assemble: the packets after the fragment f and what is
\* returned, <<>> for nothing and <<data>> for a complete packet
pmAssemble(pk, f) ==
    LET p == IF pk[f.id] = NoPacket THEN NewPacket(f.total) ELSE pk[f.id]
    IN  IF f.total # p.total \/ f.idx \notin 1 .. p.total
        THEN [packets |-> pk, out |-> <<>>]
        ELSE IF IsDuplicate(p, f) THEN [packets |-> pk, out |-> <<>>]
        ELSE LET q == [p EXCEPT !.have = @ \cup {f.idx},
                                !.slots[f.idx] = f.payload,
                                !.got = @ + 1]
             IN  IF q.got = q.total
                 THEN [packets |-> [pk EXCEPT ![f.id] = NoPacket],
                       out |-> <<pmData(q)>>]
                 ELSE [packets |-> [pk EXCEPT ![f.id] = q], out |-> <<>>]

NoWire == [sent |-> FALSE]

\* a payload of len bytes is fragmented under the request id
Fragment(id, len) ==
    /\ wire[id] = NoWire
    /\ wire' = [wire EXCEPT ![id] = [sent |-> TRUE, data |-> Payload(id, len),
                                     frags |-> pmFragment(id, Payload(id, len)),
                                     arrived |-> <<>>]]
    /\ last' = [op |-> "fragment", id |-> id]
    /\ UNCHANGED <<dhtVars, journeyVars, startVars, threadVars, packets>>

\* the i-th fragment of the request id arrives, not for the first time maybe
Assemble(id, i) ==
    /\ wire[id] # NoWire
    /\ i \in 1 .. Len(wire[id].frags)
    /\ Len(wire[id].arrived) < MaxArrivals
    /\ LET r == pmAssemble(packets, wire[id].frags[i])
       IN  /\ packets' = r.packets
           /\ last' = [op |-> "assemble", id |-> id, idx |-> i,
                       before |-> packets[id], out |-> r.out]
    /\ wire' = [wire EXCEPT ![id].arrived = Append(@, i)]
    /\ UNCHANGED <<dhtVars, journeyVars, startVars, threadVars>>

PacketInit ==
    /\ now = 1
    /\ store = [k \in UserKeys |-> NoItem(0)]
    /\ setters = [p \in 1 .. NumSetters |-> Idle]
    /\ written = {}
    /\ buckets = EmptyBuckets
    /\ requests = <<>>
    /\ calls = <<>>
    /\ journey = Nil
    /\ walked = <<>>
    /\ packets = [id \in PacketIDs |-> NoPacket]
    /\ wire = [id \in PacketIDs |-> NoWire]
    /\ boot = <<>>
    /\ tasks = <<>>
    /\ threads = <<>>
    /\ last = NoOp

PacketNext ==
    \/ \E id \in PacketIDs, len \in 0 .. MaxPayloadSize * MaxFragments :
          Fragment(id, len)
    \/ \E id \in PacketIDs, i \in 1 .. MaxFragments : Assemble(id, i)

PacketSpec == PacketInit /\ [][PacketNext]_vars

----------------------------------------------------------------------------
(***************************************************************************)
(* The start of a DHT: New inserts the local node, asks every bootstrap    *)
(* address for the nodes near the local id, all under one journey and one  *)
(* callback that writes to the channel br, and reads as many results from  *)
(* br as there are addresses.  The address a stands for the node behind    *)
(* it; a response carries no node or one node that is no bootstrap node.   *)
(***************************************************************************)

\* the most bootstrap addresses of a configuration
MaxBootstrap == 2

\* the count findNodeCallback passes to journey.next
FindNodeNext == 3

NoBoot == [pc |-> "idle"]

\* the node a FIND_NODE response may name
Learnt == NodeOf(2 ^ KEY_BITS - 1, 0)

\* the entry cache.set registers for a FIND_NODE request to the address to
BootRequest(to, t, sent) ==
    [kind |-> "findnode", to |-> to, ttl |-> t + Timeout, sent |-> sent,
     got |-> 0]

\* the callback findNodeCallback returns, run on the response nodes or on
\* the error err: the journey and the table after it, what it writes to the
\* channel (cb), the requests it sends and what it returns (done)
findNodeCallback(j, bs, nodes, err, t) ==
    LET r == jResponseReceived(j)
    IN  IF err # "nil"
        THEN [j |-> r.j, buckets |-> bs, sends |-> <<>>,
              cb |-> IF r.shouldError THEN <<err>> ELSE <<>>,
              done |-> r.shouldError]
        ELSE LET bs1 == InsertAll(bs, {nodes[i].id : i \in 1 .. Len(nodes)}, t)
                 nx == jNext(jAdd(r.j, nodes), FindNodeNext)
                 f == jFinish(nx.j, FALSE)
             IN  IF nx.next = <<>>
                 THEN [j |-> f.j, buckets |-> bs1, sends |-> <<>>,
                       cb |-> IF f.ok THEN <<"nil">> ELSE <<>>, done |-> f.ok]
                 ELSE [j |-> nx.j, buckets |-> bs1, cb |-> <<>>, done |-> FALSE,
                       sends |-> [i \in 1 .. Len(nx.next) |->
                                    BootRequest(nx.next[i].address, t, TRUE)]]

\* New with n bootstrap addresses, up to the loop that reads br; fail is the
\* address whose request could not be written to the socket, 0 for none:
\* findNodes reports that error and sends no further request
New(n, fail) ==
    /\ boot = NoBoot
    /\ buckets' = RTInsert(buckets, LocalID, LocalID, 0, now)
    /\ journey' = newJourney(LocalID, LocalID, K)
    /\ requests' = [a \in 1 .. (IF fail = 0 THEN n ELSE fail) |->
                      BootRequest(a, now, a # fail)]
    /\ boot' = [pc |-> "waiting", n |-> n, answered |-> FALSE,
                br |-> IF fail = 0 THEN <<>> ELSE <<ErrSocket>>,
                result |-> "none"]
    /\ last' = [op |-> "new"]
    /\ UNCHANGED <<now, store, setters, written, calls, walked, packetVars,
                   threadVars, tasks>>

\* br has given one result per address: New counts the successes and returns
NewReturn ==
    /\ boot # NoBoot
    /\ boot.pc = "waiting"
    /\ Len(boot.br) >= boot.n
    /\ LET successes == Cardinality({i \in 1 .. boot.n : boot.br[i] = "nil"})
       IN  boot' = [boot EXCEPT
                      !.pc = "returned",
                      !.result = IF successes < 1 /\ boot.n > 1
                                 THEN "error" ELSE "ok"]
    /\ last' = [op |-> "returned"]
    /\ UNCHANGED <<dhtVars, journeyVars, packetVars, threadVars, tasks>>

\* cache.cleanup reaches the FIND_NODE request i, which is past its ttl
BootTimeout(i) ==
    /\ now > requests[i].ttl
    /\ LET o == findNodeCallback(journey, buckets, <<>>, ErrRequestTimeout, now)
       IN  /\ journey' = o.j
           /\ buckets' = o.buckets
           /\ requests' = RemoveAt(requests, i) \o o.sends
           /\ boot' = [boot EXCEPT !.br = @ \o o.cb]
    /\ last' = [op |-> "timeout"]
    /\ UNCHANGED <<now, store, setters, written, calls, walked, packetVars,
                   threadVars, tasks>>

\* the node asked by the request i answers, once, with the nodes it knows
BootResponse(i, nodes) ==
    /\ requests[i].sent
    /\ requests[i].got = 0
    /\ LET o == findNodeCallback(journey, buckets, nodes, "nil", now)
       IN  /\ journey' = o.j
           /\ buckets' = o.buckets
           /\ requests' = (IF o.done THEN RemoveAt(requests, i)
                           ELSE [requests EXCEPT ![i].got = 1]) \o o.sends
           /\ boot' = [boot EXCEPT !.br = @ \o o.cb, !.answered = TRUE]
    /\ last' = [op |-> "response"]
    /\ UNCHANGED <<now, store, setters, written, calls, walked, packetVars,
                   threadVars, tasks>>

BootInit ==
    /\ now = 1
    /\ store = [k \in UserKeys |-> NoItem(0)]
    /\ setters = [p \in 1 .. NumSetters |-> Idle]
    /\ written = {}
    /\ buckets = EmptyBuckets
    /\ requests = <<>>
    /\ calls = <<>>
    /\ journey = Nil
    /\ walked = <<>>
    /\ packets = <<>>
    /\ wire = <<>>
    /\ boot = NoBoot
    /\ tasks = <<>>
    /\ threads = <<>>
    /\ last = NoOp

BootNext ==
    \/ \E n \in 0 .. MaxBootstrap, fail \in 0 .. MaxBootstrap :
          fail <= n /\ New(n, fail)
    \/ NewReturn
    \/ \E i \in 1 .. Len(requests) : BootTimeout(i)
    \/ \E i \in 1 .. Len(requests), nodes \in {<<>>, <<Learnt>>} :
          BootResponse(i, nodes)
    \/ Tick

BootSpec == BootInit /\ [][BootNext]_vars

----------------------------------------------------------------------------
(***************************************************************************)
(* The shutdown of a DHT with one listener.  A task is waiting (in the     *)
(* select or the sleep at the top of its loop), working (in the body of    *)
(* the loop; the read loop is then inside ReadBatch) or exited.  Close     *)
(* closes the quit channels and the socket, then waits for the tasks that  *)
(* were added to the wait group.                                           *)
(***************************************************************************)

\* the tasks New starts with the wait group: listener.process,
\* listener.flusher, monitor, refreshPeers, refreshKeys and the latency
\* refresher
Joined == {"process", "flusher", "monitor", "refreshPeers", "refreshKeys",
           "latency"}

\* the tasks newCache and newInMemoryStorage start: cache.cleanup and
\* storage.cleanup
Sweepers == {"cacheCleanup", "storageCleanup"}

TaskNames == Joined \cup Sweepers

\* close(d.quit) and listener.Close have happened
QuitClosed == tasks["Close"] # "idle"

\* a task enters the body of its loop: the ticker fires, the sleep ends, or
\* the read loop takes the default case of its select, which it only does
\* while quit is open
Work(t) ==
    /\ tasks[t] = "waiting"
    /\ t = "process" => ~QuitClosed
    /\ tasks' = [tasks EXCEPT ![t] = "working"]
    /\ last' = [op |-> "work", task |-> t]
    /\ UNCHANGED <<dhtVars, journeyVars, packetVars, threadVars, boot>>

\* the body of the loop ends and the task is back at the top; ReadBatch on
\* the closed socket does not end this way
Rest(t) ==
    /\ tasks[t] = "working"
    /\ t = "process" => ~QuitClosed
    /\ tasks' = [tasks EXCEPT ![t] = "waiting"]
    /\ last' = [op |-> "rest", task |-> t]
    /\ UNCHANGED <<dhtVars, journeyVars, packetVars, threadVars, boot>>

\* a task of the wait group takes the quit case of its select, or the read
\* loop gets net.ErrClosed from ReadBatch: it returns, and wg.Done runs
Exit(t) ==
    /\ t \in Joined
    /\ QuitClosed
    /\ tasks[t] = "waiting" \/ (t = "process" /\ tasks[t] = "working")
    /\ tasks' = [tasks EXCEPT ![t] = "exited"]
    /\ last' = [op |-> "exit", task |-> t]
    /\ UNCHANGED <<dhtVars, journeyVars, packetVars, threadVars, boot>>

\* Close, up to wg.Wait
CloseSignal ==
    /\ tasks["Close"] = "idle"
    /\ tasks' = [tasks EXCEPT !["Close"] = "waiting"]
    /\ last' = [op |-> "close"]
    /\ UNCHANGED <<dhtVars, journeyVars, packetVars, threadVars, boot>>

\* wg.Wait returns and so does Close
CloseReturn ==
    /\ tasks["Close"] = "waiting"
    /\ \A t \in Joined : tasks[t] = "exited"
    /\ tasks' = [tasks EXCEPT !["Close"] = "returned"]
    /\ last' = [op |-> "closed"]
    /\ UNCHANGED <<dhtVars, journeyVars, packetVars, threadVars, boot>>

\* the state New leaves: every task started, Close not called
ShutdownInit ==
    /\ now = 1
    /\ store = [k \in UserKeys |-> NoItem(0)]
    /\ setters = [p \in 1 .. NumSetters |-> Idle]
    /\ written = {}
    /\ buckets = EmptyBuckets
    /\ requests = <<>>
    /\ calls = <<>>
    /\ journey = Nil
    /\ walked = <<>>
    /\ packets = <<>>
    /\ wire = <<>>
    /\ boot = <<>>
    /\ tasks = [t \in TaskNames \cup {"Close"} |->
                  IF t = "Close" THEN "idle" ELSE "waiting"]
    /\ threads = <<>>
    /\ last = NoOp

ShutdownNext ==
    \/ \E t \in TaskNames : Work(t)
    \/ \E t \in TaskNames : Rest(t)
    \/ \E t \in TaskNames : Exit(t)
    \/ CloseSignal
    \/ CloseReturn

ShutdownSpec == ShutdownInit /\ [][ShutdownNext]_vars

----------------------------------------------------------------------------
(***************************************************************************)
(* The metric on its own: distance and bucketID applied to any two ids.    *)
(***************************************************************************)

\* distance(a, b), with distance(b, a) computed next to it
Distance(a, b) ==
    /\ last' = [op |-> "distance", a |-> a, b |-> b,
                ab |-> distance(a, b), ba |-> distance(b, a)]
    /\ UNCHANGED <<dhtVars, journeyVars, packetVars, startVars, threadVars>>

\* bucketID(a, b)
BucketID(a, b) ==
    /\ last' = [op |-> "bucketID", a |-> a, b |-> b, id |-> bucketID(a, b)]
    /\ UNCHANGED <<dhtVars, journeyVars, packetVars, startVars, threadVars>>

MetricNext ==
    \/ \E a, b \in IDs : Distance(a, b)
    \/ \E a, b \in IDs : BucketID(a, b)

MetricSpec == RoutingInit /\ [][MetricNext]_vars

----------------------------------------------------------------------------
(***************************************************************************)
(* Inserts into a full bucket whose members have requests pending.  No     *)
(* code of the program writes node.pending, so the full bucket is drawn    *)
(* in the initial state: any K different ids of the far bucket, each with  *)
(* any pending count, last seen before the clock started.  A failed insert *)
(* ends the run.                                                           *)
(***************************************************************************)

\* the most requests pending on a node
MaxPending == 3

\* the ids of the far bucket
FarIDs == {2 ^ (KEY_BITS - 1) + i : i \in 0 .. K}

\* the full far bucket of every choice of members and pending counts
FullBuckets ==
    {[size |-> K, expiry |-> 0, cache |-> <<>>, panic |-> FALSE,
      nodes |-> [i \in 1 .. K |->
                   [id |-> ids[i], address |-> ids[i], latency |-> 0,
                    seen |-> 0, pending |-> pend[i]]]] :
        ids \in {f \in [1 .. K -> FarIDs] :
                    \A i, j \in 1 .. K : i # j => f[i] # f[j]},
        pend \in [1 .. K -> {0, 2, MaxPending}]}

\* no insert has failed
Running == \A i \in 0 .. KEY_BITS - 1 : ~buckets[i].panic

StaleInit ==
    /\ now = 1
    /\ store = [k \in UserKeys |-> NoItem(0)]
    /\ setters = [p \in 1 .. NumSetters |-> Idle]
    /\ written = {}
    /\ buckets \in {[EmptyBuckets EXCEPT ![KEY_BITS - 1] = b] : b \in FullBuckets}
    /\ requests = <<>>
    /\ calls = <<>>
    /\ journey = Nil
    /\ walked = <<>>
    /\ packets = <<>>
    /\ wire = <<>>
    /\ boot = <<>>
    /\ tasks = <<>>
    /\ threads = <<>>
    /\ last = NoOp

StaleNext ==
    \/ \E id \in NodeIDs : Running /\ Insert(id)
    \/ \E id \in NodeIDs : Running /\ Remove(id)

StaleSpec == StaleInit /\ [][StaleNext]_vars

----------------------------------------------------------------------------
(***************************************************************************)
(* The completion of a journey under callers that run side by side.  Every *)
(* method of the journey takes j.mu: finish is split where another caller  *)
(* could run if it did not, between the test of the state and the write of *)
(* completed; the other methods are one step each.                         *)
(***************************************************************************)

\* the callers of finish, and the calls each of them makes
NumCallers == 2
MaxFinish == 2

\* the peers that advertise values, the most one advertises or sends at a
\* time, and the lowest count the model lets a peer's entry fall to
OwingPeers == {2 ^ (KEY_BITS - 1), 2 ^ (KEY_BITS - 1) + 1}
MaxFound == 2
MinOwed == 2

IdleCaller == [pc |-> "idle", calls |-> 0]

\* a journey whose mutex is never held
MuAlwaysFree(ths) == ths = ths

\* j.mu.Lock() succeeds: no caller is inside finish
MuFree(ths) == \A t \in DOMAIN ths : ths[t].pc # "locked"

\* finish(force), from the lock to the test of the state: go tells whether
\* the caller is about to set completed; late, that it found it set
FinishLock(t, force) ==
    /\ threads[t].pc = "idle"
    /\ threads[t].calls < MaxFinish
    /\ MuFree(threads)
    /\ threads' = [threads EXCEPT ![t] =
                      [pc |-> "locked", calls |-> @.calls + 1, force |-> force,
                       go |-> jFinish(journey, force).ok,
                       late |-> journey.completed]]
    /\ last' = [op |-> "lock", caller |-> t]
    /\ UNCHANGED <<dhtVars, journeyVars, packetVars, startVars>>

\* finish, from the write of completed to the return and the unlock
FinishUnlock(t) ==
    /\ threads[t].pc = "locked"
    /\ journey' = IF threads[t].go THEN [journey EXCEPT !.completed = TRUE]
                  ELSE journey
    /\ walked' = [wins |-> walked.wins + (IF threads[t].go THEN 1 ELSE 0),
                  lateWin |-> walked.lateWin \/ (threads[t].late /\ threads[t].go)]
    /\ threads' = [threads EXCEPT ![t] = [pc |-> "idle", calls |-> @.calls]]
    /\ last' = [op |-> "finish", caller |-> t, force |-> threads[t].force,
                ok |-> threads[t].go, before |-> journey]
    /\ UNCHANGED <<dhtVars, packetVars, startVars>>

\* journey.responseReceived
Received ==
    /\ MuFree(threads)
    /\ journey.inflight > 0
    /\ journey' = jResponseReceived(journey).j
    /\ last' = [op |-> "received"]
    /\ UNCHANGED <<dhtVars, walked, packetVars, startVars, threadVars>>

\* journey.addOutstanding
AddOutstanding(from, outstanding) ==
    /\ MuFree(threads)
    /\ journey' = jAddOutstanding(journey, from, outstanding)
    /\ last' = [op |-> "addOutstanding", from |-> from, n |-> outstanding,
                before |-> journey]
    /\ UNCHANGED <<dhtVars, walked, packetVars, startVars, threadVars>>

\* journey.removeOutstanding
RemoveOutstanding(from, received) ==
    /\ MuFree(threads)
    /\ journey.outstanding[from] - received >= 0 - MinOwed
    /\ journey' = jRemoveOutstanding(journey, from, received)
    /\ last' = [op |-> "removeOutstanding", from |-> from, n |-> received,
                before |-> journey]
    /\ UNCHANGED <<dhtVars, walked, packetVars, startVars, threadVars>>

\* a journey as Find leaves it: new, or with one request in flight
FinishInit ==
    /\ now = 1
    /\ store = [k \in UserKeys |-> NoItem(0)]
    /\ setters = [p \in 1 .. NumSetters |-> Idle]
    /\ written = {}
    /\ buckets = EmptyBuckets
    /\ requests = <<>>
    /\ calls = <<>>
    /\ journey \in {newJourney(LocalID, LocalID + 1, K),
                    jNext(jAdd(newJourney(LocalID, LocalID + 1, K),
                               <<NodeOf(2 ^ (KEY_BITS - 1), 0)>>), 1).j}
    /\ walked = [wins |-> 0, lateWin |-> FALSE]
    /\ packets = <<>>
    /\ wire = <<>>
    /\ boot = <<>>
    /\ tasks = <<>>
    /\ threads = [t \in 1 .. NumCallers |-> IdleCaller]
    /\ last = NoOp

FinishNext ==
    \/ \E t \in 1 .. NumCallers, force \in BOOLEAN : FinishLock(t, force)
    \/ \E t \in 1 .. NumCallers : FinishUnlock(t)
    \/ Received
    \/ \E from \in OwingPeers, n \in 0 .. MaxFound : AddOutstanding(from, n)
    \/ \E from \in OwingPeers, n \in 1 .. MaxFound : RemoveOutstanding(from, n)

FinishSpec == FinishInit /\ [][FinishNext]_vars

----------------------------------------------------------------------------
(***************************************************************************)
(* The frontier of a journey, one call at a time: add with one node, next, *)
(* and the finish that ends the journey.  The history keeps the journey as *)
(* the call found it and what the call was given and returned.             *)
(***************************************************************************)

\* journey.add with the one node n
FrontierAdd(n) ==
    /\ journey' = jAdd(journey, <<n>>)
    /\ last' = [op |-> "add", node |-> n, before |-> journey]
    /\ UNCHANGED <<dhtVars, walked, packetVars, startVars, threadVars>>

\* journey.next; walked counts the calls that returned nodes
FrontierNext(count) ==
    /\ journey' = jNext(journey, count).j
    /\ walked' = IF jNext(journey, count).next = <<>> THEN walked
                 ELSE [walked EXCEPT !.batches = @ + 1]
    /\ last' = [op |-> "next", count |-> count, before |-> journey,
                next |-> jNext(journey, count).next]
    /\ UNCHANGED <<dhtVars, packetVars, startVars, threadVars>>

\* journey.finish(true), as Find calls it when the lookup is given up
FrontierFinish ==
    /\ ~journey.completed
    /\ journey' = jFinish(journey, TRUE).j
    /\ last' = [op |-> "finish"]
    /\ UNCHANGED <<dhtVars, walked, packetVars, startVars, threadVars>>

FrontierInit ==
    /\ now = 1
    /\ store = [k \in UserKeys |-> NoItem(0)]
    /\ setters = [p \in 1 .. NumSetters |-> Idle]
    /\ written = {}
    /\ buckets = EmptyBuckets
    /\ requests = <<>>
    /\ calls = <<>>
    /\ \E d \in UserKeys, n \in 1 .. MaxIterations :
          /\ journey = newJourney(LocalID, d, n)
          /\ walked = [iterations |-> n, batches |-> 0]
    /\ packets = <<>>
    /\ wire = <<>>
    /\ boot = <<>>
    /\ tasks = <<>>
    /\ threads = <<>>
    /\ last = NoOp

FrontierStep ==
    \/ \E n \in JourneyNodes : FrontierAdd(n)
    \/ \E count \in 1 .. K + 1 : FrontierNext(count)
    \/ FrontierFinish

FrontierSpec == FrontierInit /\ [][FrontierStep]_vars

----------------------------------------------------------------------------
(***************************************************************************)
(* The cache of pending requests, step by step.  The listeners dispatch    *)
(* responses with cache.callback: Load, the callback, and Delete when it   *)
(* returned true.  The sweeper, cache.cleanup, wakes, reads the clock and  *)
(* ranges over the map: for an entry past its ttl it calls the callback    *)
(* with ErrRequestTimeout and then deletes the entry.  requests maps a     *)
(* request id to its entry; walked counts what each callback was given.    *)
(***************************************************************************)

\* the ids of the requests sent
RequestIDs == {1, 2}

\* the goroutines that run listener.process, and the sweeper
NumListeners == 2
Sweeper == 0

\* the most responses that arrive with one request id, and the most
\* responses a callback asks for before it returns true
MaxDispatch == 2
MaxWanted == 2

\* an entry deleted as soon as the sweeper meets it
ExpiredAtOnce(t, ttl) == t >= 0 /\ ttl >= 0

\* now.After(v.ttl)
Expired(t, ttl) == t > ttl

NoRequest == [set |-> FALSE, present |-> FALSE, ttl |-> 0, wants |-> 0]
NoneGiven == [loads |-> 0, responses |-> 0, timeouts |-> 0, done |-> FALSE]

\* listener.request: cache.set registers the callback under the id k with
\* the deadline now + timeout; the callback returns true from its
\* wants-th response on
CacheSet(k, wants) ==
    /\ ~requests[k].set
    /\ now + Timeout < MaxTime
    /\ requests' = [requests EXCEPT ![k] =
                       [set |-> TRUE, present |-> TRUE, ttl |-> now + Timeout,
                        wants |-> wants]]
    /\ last' = [op |-> "set", key |-> k]
    /\ UNCHANGED <<now, store, setters, written, buckets, calls, extra>>

\* cache.callback up to the Load, on the listener t, for a response that
\* carries the id k: without an entry it returns
DispatchLoad(t, k) ==
    /\ threads[t].pc = "idle"
    /\ requests[k].set
    /\ walked[k].loads < MaxDispatch
    /\ walked' = [walked EXCEPT ![k].loads = @ + 1]
    /\ threads' = IF requests[k].present
                  THEN [threads EXCEPT ![t] = [pc |-> "loaded", key |-> k]]
                  ELSE threads
    /\ last' = [op |-> "load", key |-> k, found |-> requests[k].present]
    /\ UNCHANGED <<dhtVars, journey, packetVars, startVars>>

\* the callback of the entry loaded runs with the response
DispatchCall(t) ==
    /\ threads[t].pc = "loaded"
    /\ LET k == threads[t].key
           result == walked[k].responses + 1 >= requests[k].wants
       IN  /\ walked' = [walked EXCEPT ![k].responses = @ + 1,
                                       ![k].done = @ \/ result]
           /\ threads' = [threads EXCEPT ![t] =
                             [pc |-> "called", key |-> k, result |-> result]]
           /\ last' = [op |-> "response", key |-> k, result |-> result]
    /\ UNCHANGED <<dhtVars, journey, packetVars, startVars>>

\* cache.callback after the callback: Delete if it returned true
DispatchDelete(t) ==
    /\ threads[t].pc = "called"
    /\ requests' = IF threads[t].result
                   THEN [requests EXCEPT ![threads[t].key].present = FALSE]
                   ELSE requests
    /\ threads' = [threads EXCEPT ![t] = [pc |-> "idle"]]
    /\ last' = [op |-> "dispatched", key |-> threads[t].key,
                result |-> threads[t].result]
    /\ UNCHANGED <<now, store, setters, written, buckets, calls, journeyVars,
                   packetVars, startVars>>

\* cache.cleanup wakes from its sleep and reads the clock
SweepStart ==
    /\ threads[Sweeper].pc = "sleep"
    /\ threads' = [threads EXCEPT ![Sweeper] = [pc |-> "range", at |-> now]]
    /\ last' = [op |-> "wake"]
    /\ UNCHANGED <<dhtVars, journeyVars, packetVars, startVars>>

\* Range reaches the entry k, which is past its ttl
SweepVisit(k) ==
    /\ threads[Sweeper].pc = "range"
    /\ requests[k].present
    /\ Expired(threads[Sweeper].at, requests[k].ttl)
    /\ threads' = [threads EXCEPT ![Sweeper] =
                      [pc |-> "expired", at |-> @.at, key |-> k]]
    /\ last' = [op |-> "visit", key |-> k]
    /\ UNCHANGED <<dhtVars, journeyVars, packetVars, startVars>>

\* v.callback(nil, ErrRequestTimeout)
SweepCall ==
    /\ threads[Sweeper].pc = "expired"
    /\ walked' = [walked EXCEPT ![threads[Sweeper].key].timeouts = @ + 1]
    /\ threads' = [threads EXCEPT ![Sweeper].pc = "called"]
    /\ last' = [op |-> "timeout", key |-> threads[Sweeper].key]
    /\ UNCHANGED <<dhtVars, journey, packetVars, startVars>>

\* c.requests.Delete(key), and on with the Range
SweepDelete ==
    /\ threads[Sweeper].pc = "called"
    /\ requests' = [requests EXCEPT ![threads[Sweeper].key].present = FALSE]
    /\ threads' = [threads EXCEPT ![Sweeper] = [pc |-> "range", at |-> @.at]]
    /\ last' = [op |-> "swept", key |-> threads[Sweeper].key]
    /\ UNCHANGED <<now, store, setters, written, buckets, calls, journeyVars,
                   packetVars, startVars>>

\* the Range has been over every entry: back to sleep
SweepEnd ==
    /\ threads[Sweeper].pc = "range"
    /\ \A k \in RequestIDs :
          requests[k].present => ~Expired(threads[Sweeper].at, requests[k].ttl)
    /\ threads' = [threads EXCEPT ![Sweeper] = [pc |-> "sleep"]]
    /\ last' = [op |-> "sleep"]
    /\ UNCHANGED <<dhtVars, journeyVars, packetVars, startVars>>

\* newCache: no requests, the sweeper started
CacheInit ==
    /\ now = 0
    /\ store = [k \in UserKeys |-> NoItem(0)]
    /\ setters = [p \in 1 .. NumSetters |-> Idle]
    /\ written = {}
    /\ buckets = EmptyBuckets
    /\ requests = [k \in RequestIDs |-> NoRequest]
    /\ calls = <<>>
    /\ journey = Nil
    /\ walked = [k \in RequestIDs |-> NoneGiven]
    /\ packets = <<>>
    /\ wire = <<>>
    /\ boot = <<>>
    /\ tasks = <<>>
    /\ threads = [t \in {Sweeper} \cup (1 .. NumListeners) |->
                     IF t = Sweeper THEN [pc |-> "sleep"] ELSE [pc |-> "idle"]]
    /\ last = NoOp

SweepNext ==
    \/ SweepStart
    \/ \E k \in RequestIDs : SweepVisit(k)
    \/ SweepCall
    \/ SweepDelete
    \/ SweepEnd

DispatchNext ==
    \/ \E t \in 1 .. NumListeners, k \in RequestIDs : DispatchLoad(t, k)
    \/ \E t \in 1 .. NumListeners : DispatchCall(t)
    \/ \E t \in 1 .. NumListeners : DispatchDelete(t)

CacheNext ==
    \/ \E k \in RequestIDs, wants \in 1 .. MaxWanted : CacheSet(k, wants)
    \/ DispatchNext
    \/ SweepNext
    \/ Tick

CacheSpec == CacheInit /\ [][CacheNext]_vars

\* the clock runs, the sweeper's loop never stops, and a listener inside
\* cache.callback goes on to its end
CacheFairSpec ==
    /\ CacheSpec
    /\ WF_vars(Tick)
    /\ WF_vars(SweepStart)
    /\ WF_vars(\E k \in RequestIDs : SweepVisit(k))
    /\ WF_vars(SweepCall)
    /\ WF_vars(SweepDelete)
    /\ WF_vars(SweepEnd)
    /\ WF_vars(\E t \in 1 .. NumListeners : DispatchCall(t))
    /\ WF_vars(\E t \in 1 .. NumListeners : DispatchDelete(t))

----------------------------------------------------------------------------
(***************************************************************************)
(* The monitor: at each tick of its ticker it walks the live nodes of      *)
(* every bucket, picks those its test on node.seen selects and sends each  *)
(* of them a PING; the callback of the PING refreshes the node when it     *)
(* answers and removes it when the request times out.                      *)
(***************************************************************************)

\* the monitor window, time.Hour / 2, in ticks of the clock
MonitorWindow == 1

\* the most PING requests pending at a time
MaxPings == 2

\* the peers the monitored node meets: one per bucket beside its own
MonitorIDs == {2, 2 ^ (KEY_BITS - 1)}

\* the test of the monitor on a live node, at the time t of the tick
MonitorPicks(n, t) == n.seen + MonitorWindow > t

RECURSIVE PickedFrom(_, _, _)
\* the nodes of the list s, from position i, that the monitor picks
PickedFrom(s, i, t) ==
    IF i > Len(s) THEN <<>>
    ELSE (IF MonitorPicks(s[i], t) THEN <<s[i]>> ELSE <<>>) \o PickedFrom(s, i + 1, t)

RECURSIVE MonitorNodes(_, _, _)
\* the nodes to ping, bucket by bucket from the bucket i
MonitorNodes(bs, i, t) ==
    IF i > KEY_BITS - 1 THEN <<>>
    ELSE PickedFrom(Live(bs[i]), 1, t) \o MonitorNodes(bs, i + 1, t)

\* a tick of the monitor's ticker: a PING to every node picked
MonitorTick ==
    /\ Len(requests) + Len(MonitorNodes(buckets, 0, now)) <= MaxPings
    /\ requests' = requests \o
                      [i \in 1 .. Len(MonitorNodes(buckets, 0, now)) |->
                          NewRequest("ping", 0, MonitorNodes(buckets, 0, now)[i], now, TRUE)]
    /\ last' = [op |-> "monitor",
                pinged |-> {n.id : n \in Range(MonitorNodes(buckets, 0, now))},
                live |-> {[id |-> n.id, seen |-> n.seen] : n \in AllLive(buckets)}]
    /\ UNCHANGED <<extra, calls, now, store, setters, written, buckets>>

\* the node pinged by the request i answers: the listener marks the sender
\* as seen, the callback marks the node as seen and the entry is deleted
Pong(i) ==
    /\ requests[i].kind = "ping"
    /\ buckets' = RTSeen(ProcessSender(buckets, requests[i].to, now), requests[i].id, now)
    /\ requests' = RemoveAt(requests, i)
    /\ last' = [op |-> "pong", id |-> requests[i].id]
    /\ UNCHANGED <<extra, calls, now, store, setters, written>>

\* the request i is past its ttl: the callback removes the node
PingTimeout(i) ==
    /\ requests[i].kind = "ping"
    /\ now > requests[i].ttl
    /\ buckets' = RTRemove(buckets, requests[i].id)
    /\ requests' = RemoveAt(requests, i)
    /\ last' = [op |-> "pingTimeout", id |-> requests[i].id]
    /\ UNCHANGED <<extra, calls, now, store, setters, written>>

\* a node that knows itself, at time 0
MonitorInit ==
    /\ now = 0
    /\ store = [k \in UserKeys |-> NoItem(0)]
    /\ setters = [p \in 1 .. NumSetters |-> Idle]
    /\ written = {}
    /\ buckets = InsertAll(EmptyBuckets, {LocalID}, 0)
    /\ requests = <<>>
    /\ calls = <<>>
    /\ journey = Nil
    /\ walked = <<>>
    /\ packets = <<>>
    /\ wire = <<>>
    /\ boot = <<>>
    /\ tasks = <<>>
    /\ threads = <<>>
    /\ last = NoOp

MonitorNext ==
    \/ \E id \in MonitorIDs : Insert(id)
    \/ MonitorTick
    \/ \E i \in 1 .. Len(requests) : Pong(i)
    \/ \E i \in 1 .. Len(requests) : PingTimeout(i)
    \/ Tick

MonitorSpec == MonitorInit /\ [][MonitorNext]_vars

----------------------------------------------------------------------------
(***************************************************************************)
(* The refresh of a bucket: it copies the slots of the bucket, pings the   *)
(* node of each slot in turn, removes the nodes that do not answer, and    *)
(* calls fillBucket.  A ping is one step: the node answers before the      *)
(* timeout or it does not.  walked holds the progress of the refresh.      *)
(***************************************************************************)

\* ALPHA, the number of nodes a lookup queries in parallel
ALPHA == 3

\* the peers of the refreshed node: K + 1 nodes of the far bucket, one more
\* than the bucket holds
RefreshIDs == FarIDs

NoRefresh == [pc |-> "idle"]

\* len(b.nodes): the slots of the bucket, live or not
SlotCount(b) == Cardinality(DOMAIN b.nodes)

\* the copy bucket.refresh takes: make([]*node, len(b.nodes)), copy
CopiedSlots(b) == [i \in 1 .. SlotCount(b) |-> b.nodes[i]]

\* DHT.generateRandomIDInBucket for the bucket i of a key of one byte: the
\* local id with bit i, counted from the most significant, flipped
generateRandomIDInBucket(i) ==
    IF Bit(LocalID, i) = 0 THEN LocalID + 2 ^ (KEY_BITS - 1 - i)
    ELSE LocalID - 2 ^ (KEY_BITS - 1 - i)

\* DHT.lookup: the shortlist of the latency router, which no query extends
lookup(bs, targetID) ==
    LET shortlist == GetBestRoutes(bs, targetID, ALPHA, [i \in 1 .. 2 * ALPHA |-> 0])
    IN  SubSeq(shortlist, 1, IF K < Len(shortlist) THEN K ELSE Len(shortlist))

\* bucket.refresh up to the copy of the slots of the bucket i
RefreshStart(i) ==
    /\ walked.pc \in {"idle", "done"}
    /\ walked' = [pc |-> "pinging", bucket |-> i, nodes |-> CopiedSlots(buckets[i]),
                  pos |-> 1, pinged |-> <<>>, silent |-> {},
                  start |-> LiveIDs(buckets[i]), lookups |-> 0]
    /\ last' = [op |-> "refresh", bucket |-> i]
    /\ UNCHANGED <<dhtVars, journey, packetVars, startVars, threadVars>>

\* the next slot of the copy: DHT.pingNode on its node, which reads
\* n.address, and bucket.remove when pingNode returned false
RefreshPing(answer) ==
    /\ walked.pc = "pinging"
    /\ walked.pos <= Len(walked.nodes)
    /\ LET n == walked.nodes[walked.pos]
       IN  IF n = Nil
           THEN /\ walked' = [walked EXCEPT !.pc = "panic"]
                /\ UNCHANGED buckets
           ELSE /\ walked' = [walked EXCEPT
                                !.pos = @ + 1,
                                !.pinged = Append(@, n.id),
                                !.silent = IF answer THEN @ ELSE @ \cup {n.id}]
                /\ buckets' = IF answer
                              THEN RTSeen(ProcessSender(buckets, n.id, now), n.id, now)
                              ELSE [buckets EXCEPT ![walked.bucket] =
                                       BucketRemove(@, n.id).bucket]
    /\ last' = [op |-> "ping", answer |-> answer]
    /\ UNCHANGED <<now, store, setters, written, requests, calls, journey, packetVars,
                   startVars, threadVars>>

\* bucket.fillBucket, after the last slot: nothing for a bucket of K slots;
\* else a lookup, and with nodes found an insert under the bucket's own lock
RefreshFill ==
    /\ walked.pc = "pinging"
    /\ walked.pos > Len(walked.nodes)
    /\ LET b == buckets[walked.bucket]
           nodes == lookup(buckets, generateRandomIDInBucket(walked.bucket))
       IN  walked' = IF SlotCount(b) >= K THEN [walked EXCEPT !.pc = "done"]
                     ELSE [walked EXCEPT
                             !.lookups = @ + 1,
                             !.pc = IF nodes = <<>> THEN "done" ELSE "blocked"]
    /\ last' = [op |-> "fill"]
    /\ UNCHANGED <<dhtVars, journey, packetVars, startVars, threadVars>>

RefreshInit ==
    /\ now = 1
    /\ store = [k \in UserKeys |-> NoItem(0)]
    /\ setters = [p \in 1 .. NumSetters |-> Idle]
    /\ written = {}
    /\ buckets = InsertAll(EmptyBuckets, {LocalID}, 1)
    /\ requests = <<>>
    /\ calls = <<>>
    /\ journey = Nil
    /\ walked = NoRefresh
    /\ packets = <<>>
    /\ wire = <<>>
    /\ boot = <<>>
    /\ tasks = <<>>
    /\ threads = <<>>
    /\ last = NoOp

RefreshNext ==
    \/ \E id \in RefreshIDs : walked.pc # "panic" /\ Insert(id)
    \/ \E i \in 0 .. KEY_BITS - 1 : RefreshStart(i)
    \/ \E answer \in BOOLEAN : RefreshPing(answer)
    \/ RefreshFill

RefreshSpec == RefreshInit /\ [][RefreshNext]_vars

----------------------------------------------------------------------------
(***************************************************************************)
(* part_003: DHT.refreshKeys, the body of one tick                         *)
(***************************************************************************)

\* a bound on the TTL of the values held when the refresher ticks
MaxKeyTTL == 2

\* the orders in which sync.Map.Range may visit the keys the map holds
RangeOrders(st) ==
    LET ks == {k \in DOMAIN st : st[k].mapped}
    IN  {o \in [1 .. Cardinality(ks) -> ks] :
            \A i, j \in 1 .. Cardinality(ks) : o[i] = o[j] => i = j}

RECURSIVE IterateKeys(_, _, _)
\* the keys the visitor of refreshKeys collects from storage.Iterate: the
\* key of every value of every item, the items in the order o from position i
IterateKeys(st, o, i) ==
    IF i > Len(o) THEN <<>>
    ELSE [j \in 1 .. Len(st[o[i]].values) |-> o[i]] \o IterateKeys(st, o, i + 1)

\* the d.Store of refreshKeys on a key and a value taken from the storage
RefreshStore(acc, key, v, ttl) ==
    LET c == Len(acc.calls) + 1
        ns == closestN(buckets, key, K)
        call == NewCall("Store", key, v, now + ttl)
        a == StoreLoop([store |-> acc.store, written |-> acc.written,
                        requests |-> acc.requests, cb |-> <<>>],
                       ns, 1, c, key, NewValue(v, now, ttl), 0)
        p == Append(acc.published, [key |-> key, value |-> v, ttl |-> ttl])
    IN  IF Len(ns) < 1
        THEN [acc EXCEPT !.published = p,
                  !.calls = Append(@, [call EXCEPT
                                !.cb = <<Result("nil", "no nodes found")>>])]
        ELSE [store |-> a.store, written |-> a.written, requests |-> a.requests,
              published |-> p,
              calls |-> Append(acc.calls, [call EXCEPT
                            !.ns = [i \in 1 .. Len(ns) |-> ns[i].id], !.cb = a.cb])]

RECURSIVE RefreshKeysLoop(_, _, _)
\* the loop of refreshKeys over the collected keys from position i
RefreshKeysLoop(acc, keys, i) ==
    IF i > Len(keys) THEN acc
    ELSE LET g == Get(acc.store, keys[i], now)
         IN  IF ~g.ok \/ Len(g.values) = 0
             THEN RefreshKeysLoop(acc, keys, i + 1)
             ELSE LET remainingTTL == g.values[1].expires - now
                  IN  IF remainingTTL > 0
                      THEN RefreshKeysLoop(
                               RefreshStore(acc, keys[i], g.values[1].value, remainingTTL),
                               keys, i + 1)
                      ELSE RefreshKeysLoop(acc, keys, i + 1)

\* history: the (key, value, remaining TTL) of the stored values whose TTL
\* has not elapsed at t
Unexpired(st, t) ==
    UNION {{<<k, st[k].values[i].value, st[k].values[i].expires - t>> :
                i \in {j \in 1 .. Len(st[k].values) : st[k].values[j].expires > t}} :
           k \in {x \in DOMAIN st : st[x].mapped}}

\* one tick of refreshKeys
RefreshKeys ==
    \E o \in RangeOrders(store) :
        LET a == RefreshKeysLoop([store |-> store, written |-> written,
                                  requests |-> requests, calls |-> calls,
                                  published |-> <<>>],
                                 IterateKeys(store, o, 1), 1)
        IN  /\ Len(a.calls) <= MaxCalls
            /\ store' = a.store
            /\ written' = a.written
            /\ requests' = a.requests
            /\ calls' = a.calls
            /\ last' = [op |-> "refreshKeys", published |-> a.published,
                        held |-> Unexpired(store, now)]
            /\ UNCHANGED <<extra, now, setters, buckets>>

\* DHT.New: the routing table holds the local node and one peer
KeyRefreshInit ==
    /\ now = 1
    /\ store = [k \in UserKeys |-> NoItem(0)]
    /\ setters = [p \in 1 .. NumSetters |-> Idle]
    /\ written = {}
    /\ buckets = InsertAll(EmptyBuckets, {LocalID, 2 ^ (KEY_BITS - 1)}, 1)
    /\ requests = <<>>
    /\ calls = <<>>
    /\ journey = Nil
    /\ walked = <<>>
    /\ packets = <<>>
    /\ wire = <<>>
    /\ boot = <<>>
    /\ tasks = <<>>
    /\ threads = <<>>
    /\ last = NoOp

\* a node that is given values to hold, created when they are stored, and
\* its key refresher
KeyRefreshNext ==
    \/ \E k \in UserKeys, v \in UserValues, ttl \in 1 .. MaxKeyTTL :
            Set(k, v, now, ttl)
    \/ RefreshKeys
    \/ Tick

KeyRefreshSpec == KeyRefreshInit /\ [][KeyRefreshNext]_vars

----------------------------------------------------------------------------
(***************************************************************************)
(* listener.go: listener.process on one event, with the key transfer       *)
(***************************************************************************)

\* the size at which a batch of values is sent, in values
MaxEventSize == 1

\* a bound on the STORE requests of transfers the cache holds
MaxTransfers == 3

\* the senders of the events a listener reads
Senders == {2, 2 ^ (KEY_BITS - 1), 2 ^ (KEY_BITS - 1) + 1}

\* what a value adds to the size of its batch: the lengths of its key and
\* value and the overhead of its table, one unit for every value here
ValueSize(v) == 1

RECURSIVE IterateValues(_, _, _)
\* the values storage.Iterate hands to its visitor, each with its key: the
\* values of every item, the items in the order o from position i
IterateValues(st, o, i) ==
    IF i > Len(o) THEN <<>>
    ELSE [j \in 1 .. Len(st[o[i]].values) |->
             [key |-> o[i], value |-> st[o[i]].values[j].value]]
         \o IterateValues(st, o, i + 1)

RECURSIVE TransferVisit(_, _, _, _, _)
\* the visitor of transferKeys over the values vs from position i: acc holds
\* the batch being filled, its size, and the batches sent
TransferVisit(acc, vs, i, id, transferAll) ==
    IF i > Len(vs) THEN acc
    ELSE LET d1 == distance(LocalID, vs[i].key)
             d2 == distance(id, vs[i].key)
             a1 == IF acc.size >= MaxEventSize
                   THEN [values |-> <<>>, size |-> 0,
                         sent |-> Append(acc.sent, acc.values)]
                   ELSE acc
         IN  IF transferAll \/ d2 > d1
             THEN TransferVisit([a1 EXCEPT !.values = Append(@, vs[i]),
                                           !.size = @ + ValueSize(vs[i])],
                                vs, i + 1, id, transferAll)
             ELSE TransferVisit(acc, vs, i + 1, id, transferAll)

\* listener.transferKeys to the node id: the batches of the STORE requests
\* it sends, the storage ranged over in the order o
transferKeys(bs, st, o, id) ==
    LET a == TransferVisit([values |-> <<>>, size |-> 0, sent |-> <<>>],
                           IterateValues(st, o, 1), 1, id, neighbours(bs) < K)
    IN  IF Len(a.values) > 0 THEN Append(a.sent, a.values) ELSE a.sent

\* history: the stored (key, value) pairs that are closer to the node id
\* than to the local node, or all of them when transferAll
Closer(st, id, transferAll) ==
    {p \in UNION {{[key |-> k, value |-> st[k].values[j].value] :
                        j \in 1 .. Len(st[k].values)} :
                  k \in {x \in DOMAIN st : st[x].mapped}} :
        transferAll \/ distance(id, p.key) > distance(LocalID, p.key)}

\* listener.process on a well-formed event of sender, written to without
\* error: a response to the request i of the cache (0: to none it holds),
\* or a request of the given kind, a STORE carrying the value v for key k
Process(sender, response, kind, k, v, i) ==
    LET known == RTKnown(buckets, sender)
        bs == ProcessSender(buckets, sender, now)
        st == IF ~response /\ kind = "store"
              THEN SetAtomic(store, k, NewValue(v, now, 1)) ELSE store
    IN  /\ response => kind = "ping" /\ (IF i = 0 THEN TRUE ELSE requests[i].id = sender)
        /\ ~response => i = 0
        /\ \E o \in RangeOrders(st) :
            LET batches == IF response \/ known THEN <<>>
                           ELSE transferKeys(bs, st, o, sender)
            IN  /\ Len(requests) + Len(batches) <= MaxTransfers
                /\ requests' = (IF i = 0 THEN requests ELSE RemoveAt(requests, i)) \o
                       [j \in 1 .. Len(batches) |->
                           NewRequest("store", 0, [id |-> sender, address |-> sender],
                                      now, TRUE)]
                /\ last' = [op |-> "event", sender |-> sender, response |-> response,
                            known |-> known, batches |-> batches,
                            closer |-> Closer(st, sender, neighbours(bs) < K)]
        /\ buckets' = bs
        /\ store' = st
        /\ written' = IF st = store THEN written ELSE written \cup {<<k, v>>}
        /\ UNCHANGED <<extra, calls, now, setters>>

\* DHT.New with the listeners started: the routing table is empty until the
\* local node is inserted
ListenInit ==
    /\ now = 1
    /\ store = [k \in UserKeys |-> NoItem(0)]
    /\ setters = [p \in 1 .. NumSetters |-> Idle]
    /\ written = {}
    /\ buckets \in {EmptyBuckets, InsertAll(EmptyBuckets, {LocalID}, 1)}
    /\ requests = <<>>
    /\ calls = <<>>
    /\ journey = Nil
    /\ walked = <<>>
    /\ packets = <<>>
    /\ wire = <<>>
    /\ boot = <<>>
    /\ tasks = <<>>
    /\ threads = <<>>
    /\ last = NoOp

\* a listener reading the events of its peers: STORE requests, the other
\* requests, and responses
ListenNext ==
    \/ \E sender \in Senders, k \in UserKeys, v \in UserValues :
            Process(sender, FALSE, "store", k, v, 0)
    \/ \E sender \in Senders, kind \in {"ping", "findNode", "findValue"} :
            Process(sender, FALSE, kind, LocalID, "", 0)
    \/ \E sender \in Senders, i \in 0 .. Len(requests) :
            Process(sender, TRUE, "ping", LocalID, "", i)

ListenSpec == ListenInit /\ [][ListenNext]_vars

----------------------------------------------------------------------------
(***************************************************************************)
(* listener.go: listener.findValue on a node that holds the key, and the   *)
(* callback of the requester on the responses.  store is the storage of    *)
(* the responder; journey, the cache entry of the request and the          *)
(* listeners are the requester's.                                          *)
(***************************************************************************)

\* the values the responder is given to hold
ChunkValues == {"v", "w", "x"}

\* the key asked for, the node that holds it, and the id of the request
ChunkKey == 5
Responder == 2 ^ (KEY_BITS - 1)
RequestID == 1

\* the batch is sent and emptied, changed: the batch is sent and kept
FlushKept(acc) ==
    [acc EXCEPT !.size = 0, !.sent = Append(@, acc.values)]

\* the batch is sent and emptied
Flush(acc) ==
    [values |-> <<>>, size |-> 0, sent |-> Append(acc.sent, acc.values)]

RECURSIVE ChunkLoop(_, _, _)
\* the loop of findValue over the values vs from position i: acc holds the
\* batch being filled, its size, and the batches sent
ChunkLoop(acc, vs, i) ==
    IF i > Len(vs) THEN acc
    ELSE LET a1 == IF acc.size >= MaxEventSize THEN Flush(acc) ELSE acc
         IN  ChunkLoop([a1 EXCEPT !.values = Append(@, vs[i].value),
                                  !.size = @ + ValueSize(vs[i])],
                       vs, i + 1)

\* eventFindValueFoundResponse
FoundResponse(id, sender, values, found) ==
    [id |-> id, sender |-> sender, response |-> TRUE, found |-> found,
     values |-> values]

\* listener.findValue when storage.Get finds values vs: the responses written
findValue(vs, id) ==
    LET a == ChunkLoop([values |-> <<>>, size |-> 0, sent |-> <<>>], vs, 1)
        batches == IF Len(a.values) > 0 THEN Append(a.sent, a.values) ELSE a.sent
    IN  [b \in 1 .. Len(batches) |->
            FoundResponse(id, Responder, batches[b], Len(vs))]

\* the responder reads the FIND_VALUE request for the key, which it holds
FindValueRequest(from) ==
    /\ walked.pc = "asked"
    /\ Get(store, ChunkKey, from).ok
    /\ wire' = findValue(Get(store, ChunkKey, from).values, RequestID)
    /\ walked' = [walked EXCEPT !.pc = "answered",
                     !.found = Len(Get(store, ChunkKey, from).values),
                     !.sent = Len(findValue(Get(store, ChunkKey, from).values, RequestID))]
    /\ last' = [op |-> "findValue",
                vs |-> [i \in 1 .. Len(Get(store, ChunkKey, from).values) |->
                           Get(store, ChunkKey, from).values[i].value]]
    /\ UNCHANGED <<dhtVars, journey, packets, startVars, threadVars>>

\* the listener t of the requester reads the response i: cache.callback
\* loads the entry of its id, and the callback starts with responseReceived;
\* a response without an entry is dropped, one to a completed journey has
\* the entry deleted
ChunkTake(t, i) ==
    /\ threads[t].pc = "idle"
    /\ wire' = RemoveAt(wire, i)
    /\ IF ~walked.entry
       THEN /\ last' = [op |-> "dropped"]
            /\ UNCHANGED <<journey, walked, threads>>
       ELSE /\ journey' = jResponseReceived(journey).j
            /\ IF jResponseReceived(journey).completed
               THEN /\ walked' = [walked EXCEPT !.entry = FALSE]
                    /\ last' = [op |-> "ignored"]
                    /\ UNCHANGED threads
               ELSE /\ threads' = [threads EXCEPT ![t] =
                                      [pc |-> "received", event |-> wire[i]]]
                    /\ last' = [op |-> "received"]
                    /\ UNCHANGED walked
    /\ UNCHANGED <<dhtVars, packets, startVars>>

\* the callback's j.addOutstanding(sender, found)
ChunkAdvertise(t) ==
    /\ threads[t].pc = "received"
    /\ journey' = jAddOutstanding(journey, threads[t].event.sender,
                                  threads[t].event.found)
    /\ threads' = [threads EXCEPT ![t].pc = "advertised"]
    /\ walked' = [walked EXCEPT !.advertised = @ + 1]
    /\ last' = [op |-> "advertised"]
    /\ UNCHANGED <<dhtVars, wire, packets, startVars>>

\* the callback's j.removeOutstanding(sender, ValuesLength)
ChunkDeduct(t) ==
    /\ threads[t].pc = "advertised"
    /\ journey' = jRemoveOutstanding(journey, threads[t].event.sender,
                                     Len(threads[t].event.values))
    /\ threads' = [threads EXCEPT ![t].pc = "deducted"]
    /\ walked' = [walked EXCEPT !.deducted = @ + Len(threads[t].event.values),
                                !.chunks = @ + 1]
    /\ last' = [op |-> "deducted"]
    /\ UNCHANGED <<dhtVars, wire, packets, startVars>>

\* the callback's loop of seenValue, and its j.finish(false), whose true has
\* the cache delete the entry
ChunkFinish(t) ==
    /\ threads[t].pc = "deducted"
    /\ LET j1 == [journey EXCEPT !.values = @ \cup Range(threads[t].event.values)]
       IN  /\ journey' = jFinish(j1, FALSE).j
           /\ walked' = [walked EXCEPT !.entry = @ /\ ~jFinish(j1, FALSE).ok]
           /\ last' = [op |-> "finish", ok |-> jFinish(j1, FALSE).ok]
    /\ threads' = [threads EXCEPT ![t] = [pc |-> "idle"]]
    /\ UNCHANGED <<dhtVars, wire, packets, startVars>>

\* the sweeper of the cache finds the entry past its deadline: the callback
\* gets ErrRequestTimeout, and the entry is deleted
ChunkTimeout ==
    /\ walked.entry
    /\ journey' = jResponseReceived(journey).j
    /\ walked' = [walked EXCEPT !.entry = FALSE]
    /\ last' = [op |-> "timeout"]
    /\ UNCHANGED <<dhtVars, wire, packets, startVars, threadVars>>

\* the responder is given a value of the key to hold
ChunkSet(v, created) ==
    /\ walked.pc = "asked"
    /\ Set(ChunkKey, v, created, 1)

\* the requester has sent its one FIND_VALUE request, to the responder
ChunkInit ==
    /\ now = 1
    /\ store = [k \in UserKeys |-> NoItem(0)]
    /\ setters = [p \in 1 .. NumSetters |-> Idle]
    /\ written = {}
    /\ buckets = EmptyBuckets
    /\ requests = <<>>
    /\ calls = <<>>
    /\ journey = jNext(jAdd(newJourney(LocalID, ChunkKey, K),
                            <<NodeOf(Responder, 0)>>), 1).j
    /\ walked = [pc |-> "asked", entry |-> TRUE, found |-> 0, sent |-> 0,
                 advertised |-> 0, deducted |-> 0, chunks |-> 0]
    /\ packets = <<>>
    /\ wire = <<>>
    /\ boot = <<>>
    /\ tasks = <<>>
    /\ threads = [t \in 1 .. NumListeners |-> [pc |-> "idle"]]
    /\ last = NoOp

ChunkNext ==
    \/ \E v \in ChunkValues, created \in 1 .. MaxCreated : ChunkSet(v, created)
    \/ \E from \in 0 .. MaxCreated : FindValueRequest(from)
    \/ \E t \in 1 .. NumListeners, i \in 1 .. Len(wire) : ChunkTake(t, i)
    \/ \E t \in 1 .. NumListeners : ChunkAdvertise(t)
    \/ \E t \in 1 .. NumListeners : ChunkDeduct(t)
    \/ \E t \in 1 .. NumListeners : ChunkFinish(t)
    \/ ChunkTimeout

ChunkSpec == ChunkInit /\ [][ChunkNext]_vars

----------------------------------------------------------------------------
(***************************************************************************)
(* latency_router.go: updateAllNodeLatencies, one bucket after the other   *)
(* under the bucket's mutex, measureNodeLatency on each live node, and the *)
(* listeners that read the PONGs.  walked is the refresher; threads are    *)
(* the listeners; the time a PING has been waited for is counted in        *)
(* elapsed, in ticks of which Threshold make the threshold.                *)
(***************************************************************************)

\* time.Hour, the latency of a failed ping: above the threshold
Hour == Threshold + 1

\* a bound on the failCount reached
MaxFailCount == 2

\* the peers in the routing table when the refresher ticks
PingedPeers == {2, 2 ^ (KEY_BITS - 1)}

\* b.mu of the bucket i is held by bucket.iterate
IterateHolds(i) == walked.pc # "idle" /\ walked.bucket = i

\* the node the refresher is at
PingedNode == buckets[walked.bucket].nodes[walked.pos]

\* iterate reaches the slot pos of its bucket, or unlocks after the last
\* live node and the loop goes to the next bucket
IterateAt(w, pos) ==
    IF pos <= buckets[w.bucket].size
    THEN [w EXCEPT !.pc = "locked", !.pos = pos]
    ELSE [w EXCEPT !.pc = "idle", !.pos = 1, !.bucket = (@ + 1) % KEY_BITS]

\* updateAllNodeLatencies: bucket.iterate locks the next bucket
IterateLock ==
    /\ walked.pc = "idle"
    /\ walked' = IterateAt([walked EXCEPT !.pc = "locked"], 1)
    /\ last' = [op |-> "iterate", bucket |-> walked.bucket]
    /\ UNCHANGED <<dhtVars, journey, packetVars, startVars, threadVars>>

\* measureNodeLatency up to the select: the PING is registered and written
MeasurePing ==
    /\ walked.pc = "locked"
    /\ walked.failCount[PingedNode.id] < MaxFailCount
    /\ requests' = Append(requests, NewRequest("ping", 0, PingedNode, now, TRUE))
    /\ walked' = [walked EXCEPT !.pc = "waiting", !.elapsed = 0, !.done = "empty",
                                !.answered = FALSE]
    /\ last' = [op |-> "ping", id |-> PingedNode.id]
    /\ UNCHANGED <<now, store, setters, written, buckets, calls, journey,
                   packetVars, startVars, threadVars>>

\* the node pinged answers before the threshold: its PONG reaches the socket
NodeAnswers ==
    /\ walked.pc = "waiting"
    /\ ~walked.answered
    /\ walked.elapsed < Threshold
    /\ wire' = Append(wire, [id |-> PingedNode.id, sender |-> PingedNode.id])
    /\ walked' = [walked EXCEPT !.answered = TRUE]
    /\ last' = [op |-> "pong", id |-> PingedNode.id]
    /\ UNCHANGED <<dhtVars, journey, packets, startVars, threadVars>>

\* the time waited for the PONG grows
Elapse ==
    /\ walked.pc = "waiting"
    /\ walked.elapsed < Threshold
    /\ walked' = [walked EXCEPT !.elapsed = @ + 1]
    /\ last' = NoOp
    /\ UNCHANGED <<dhtVars, journey, packetVars, startVars, threadVars>>

\* the listener t reads an event off the socket and is about to call
\* routing.seen on its sender
ListenerRead(t, i) ==
    /\ threads[t].pc = "idle"
    /\ threads' = [threads EXCEPT ![t] = [pc |-> "seen", event |-> wire[i]]]
    /\ wire' = RemoveAt(wire, i)
    /\ last' = [op |-> "read", listener |-> t]
    /\ UNCHANGED <<dhtVars, journey, walked, packets, startVars>>

\* the listener t gets the mutex of the sender's bucket: routing.seen, then
\* cache.callback runs the callback of the request, which writes to done
\* (a channel of one slot, that of the measurement under way or one no longer read)
\* and has the entry deleted
ListenerSeen(t) ==
    /\ threads[t].pc = "seen"
    /\ ~IterateHolds(bucketID(LocalID, threads[t].event.sender))
    /\ buckets' = ProcessSender(buckets, threads[t].event.sender, now)
    /\ LET hits == {i \in 1 .. Len(requests) : requests[i].id = threads[t].event.id}
       IN  /\ requests' = IF hits = {} THEN requests
                          ELSE RemoveAt(requests, CHOOSE i \in hits : TRUE)
           /\ walked' = IF hits # {} /\ walked.pc = "waiting"
                           /\ PingedNode.id = threads[t].event.id
                        THEN [walked EXCEPT !.done = "nil"] ELSE walked
    /\ threads' = [threads EXCEPT ![t] = [pc |-> "idle"]]
    /\ last' = [op |-> "dispatched", id |-> threads[t].event.id]
    /\ UNCHANGED <<now, store, setters, written, calls, journey, wire, packets,
                   startVars>>

\* the select of measureNodeLatency and the assignment of the latency: done
\* was written, or the threshold has passed
MeasureSelect ==
    /\ walked.pc = "waiting"
    /\ walked.done # "empty" \/ walked.elapsed >= Threshold
    /\ LET id == PingedNode.id
           ok == walked.done # "empty"
           latency == IF ok THEN walked.elapsed ELSE Hour
           fc == IF ok THEN 0 ELSE walked.failCount[id] + 1
       IN  /\ buckets' = [buckets EXCEPT
                             ![walked.bucket].nodes[walked.pos].latency = latency]
           /\ walked' = IterateAt([walked EXCEPT !.failCount[id] = fc],
                                  walked.pos + 1)
           /\ last' = [op |-> "measured", id |-> id, answered |-> walked.answered,
                       latency |-> latency, failCount |-> fc,
                       before |-> walked.failCount[id],
                       blocked |-> {t \in DOMAIN threads :
                                       /\ threads[t].pc = "seen"
                                       /\ threads[t].event.id = id}]
    /\ UNCHANGED <<now, store, setters, written, requests, calls, journey,
                   packetVars, startVars, threadVars>>

\* the refresher ticks on a node that knows itself and some peers
LatencyRefreshInit ==
    /\ now = 1
    /\ store = [k \in UserKeys |-> NoItem(0)]
    /\ setters = [p \in 1 .. NumSetters |-> Idle]
    /\ written = {}
    /\ buckets \in {InsertAll(EmptyBuckets, {LocalID} \cup S, 1) :
                       S \in SUBSET PingedPeers}
    /\ requests = <<>>
    /\ calls = <<>>
    /\ journey = Nil
    /\ walked = [pc |-> "idle", bucket |-> 0, pos |-> 1, elapsed |-> 0,
                 done |-> "empty", answered |-> FALSE,
                 failCount |-> [id \in IDs |-> 0]]
    /\ packets = <<>>
    /\ wire = <<>>
    /\ boot = <<>>
    /\ tasks = <<>>
    /\ threads = [t \in 1 .. NumListeners |-> [pc |-> "idle"]]
    /\ last = NoOp

LatencyRefreshNext ==
    \/ IterateLock
    \/ MeasurePing
    \/ NodeAnswers
    \/ Elapse
    \/ \E t \in 1 .. NumListeners, i \in 1 .. Len(wire) : ListenerRead(t, i)
    \/ \E t \in 1 .. NumListeners : ListenerSeen(t)
    \/ MeasureSelect

LatencyRefreshSpec == LatencyRefreshInit /\ [][LatencyRefreshNext]_vars

----------------------------------------------------------------------------
(***************************************************************************)
(* storage.go: Iterate with a visitor that may stop it, and the mutex of   *)
(* each item.  walked.locked holds the keys whose item's mutex is held by  *)
(* no running call; a call that needs such a mutex waits for ever, which   *)
(* is recorded as blocked, and the sweeper that did so runs no more.       *)
(***************************************************************************)

\* a bound on the position of the value at which a visitor returns false
MaxStop == 2

RECURSIVE IterateItems(_, _, _, _, _)
\* storage.Iterate over the items in the order o from position i; stop is
\* the number of values after which the visitor returns false (0: never),
\* acc holds the values visited, the key whose mutex was left locked and
\* whether the call met a mutex that is held
IterateItems(st, o, i, stop, acc) ==
    IF i > Len(o) THEN acc
    ELSE IF o[i] \in acc.locked THEN [acc EXCEPT !.blocked = TRUE]
    ELSE LET vs == [j \in 1 .. Len(st[o[i]].values) |->
                       [key |-> o[i], value |-> st[o[i]].values[j].value]]
             left == stop - Len(acc.visited)
         IN  IF stop > 0 /\ left <= Len(vs)
             THEN [acc EXCEPT !.visited = @ \o SubSeq(vs, 1, left),
                              !.locked = @ \cup {o[i]}]
             ELSE IterateItems(st, o, i + 1, stop,
                               [acc EXCEPT !.visited = @ \o vs])

\* storage.Iterate with a visitor that returns false at its stop-th value
StorageIterate(stop) ==
    \E o \in RangeOrders(store) :
        LET r == IterateItems(store, o, 1, stop,
                     [visited |-> <<>>, locked |-> walked.locked, blocked |-> FALSE])
            all == IterateValues(store, o, 1)
        IN  /\ walked' = [walked EXCEPT !.locked = r.locked]
            /\ last' = [op |-> "Iterate", visited |-> r.visited, blocked |-> r.blocked,
                        stopped |-> stop > 0 /\ stop <= Len(all),
                        wanted |-> IF stop > 0 /\ stop <= Len(all)
                                   THEN SubSeq(all, 1, stop) ELSE all]
            /\ UNCHANGED <<dhtVars, journey, packetVars, startVars, threadVars>>

\* storage.Set by one caller: item.insert takes the mutex of the item
LockedSet(k, v) ==
    IF store[KeyHash(k)].mapped /\ k \in walked.locked
    THEN /\ last' = [op |-> "Set", key |-> k, blocked |-> TRUE]
         /\ UNCHANGED <<dhtVars, extra>>
    ELSE /\ store[KeyHash(k)].mapped \/ store[KeyHash(k)].gen < MaxGen
         /\ store' = SetAtomic(store, k, NewValue(v, now, 1))
         /\ written' = written \cup {<<k, v>>}
         /\ last' = [op |-> "Set", key |-> k, blocked |-> FALSE]
         /\ UNCHANGED <<extra, requests, calls, now, setters, buckets>>

RECURSIVE SweepItems(_, _, _, _)
\* one pass of storage.cleanup over the items in the order o from position
\* i, up to the first mutex that is held
SweepItems(st, o, i, t) ==
    IF i > Len(o) THEN [store |-> st, blocked |-> FALSE]
    ELSE IF o[i] \in walked.locked THEN [store |-> st, blocked |-> TRUE]
    ELSE SweepItems(IF Sweeps(st[o[i]], t)
                    THEN [st EXCEPT ![o[i]] = NoItem(st[o[i]].gen)] ELSE st,
                    o, i + 1, t)

\* storage.cleanup: one pass of the sweeper
LockedCleanup ==
    /\ ~walked.stuck
    /\ \E o \in RangeOrders(store) :
          /\ store' = SweepItems(store, o, 1, now).store
          /\ walked' = [walked EXCEPT !.stuck = SweepItems(store, o, 1, now).blocked]
          /\ last' = [op |-> "cleanup", blocked |-> SweepItems(store, o, 1, now).blocked]
    /\ UNCHANGED <<now, setters, written, buckets, requests, calls, journey,
                   packetVars, startVars, threadVars>>

IterateInit ==
    /\ now = 1
    /\ store = [k \in UserKeys |-> NoItem(0)]
    /\ setters = [p \in 1 .. NumSetters |-> Idle]
    /\ written = {}
    /\ buckets = EmptyBuckets
    /\ requests = <<>>
    /\ calls = <<>>
    /\ journey = Nil
    /\ walked = [locked |-> {}, stuck |-> FALSE]
    /\ packets = <<>>
    /\ wire = <<>>
    /\ boot = <<>>
    /\ tasks = <<>>
    /\ threads = <<>>
    /\ last = NoOp

\* the storage with callers of Set and Iterate, the clock and the sweeper
IterateNext ==
    \/ \E k \in UserKeys, v \in UserValues : LockedSet(k, v)
    \/ \E stop \in 0 .. MaxStop : StorageIterate(stop)
    \/ LockedCleanup
    \/ Tick

IterateSpec == IterateInit /\ [][IterateNext]_vars

----------------------------------------------------------------------------
(***************************************************************************)
(* Properties of the storage                                               *)
(***************************************************************************)

\* the values Get(k, zero time) returns, as the sequence of their bytes
GetAll(k) ==
    [i \in 1 .. Len(Get(store, k, 0).values) |-> Get(store, k, 0).values[i].value]

\* C4: a value whose TTL has not elapsed is still returned by Get after a
\* pass of the sweeper: every (key, value) that Get returned before the pass
\* and that had not expired then is returned after it.
C4_RetrievableBeforeExpiry ==
    last.op = "cleanup" =>
        \A kv \in last.live : Occurrences(GetAll(kv[1]), kv[2]) >= 1

\* C4: the case: a pass of the sweeper over a storage holding a live value
C4_SweepOverLiveValue == last.op = "cleanup" /\ last.live # {}

\* C5: after a pass of the sweeper Get returns no value whose TTL has
\* elapsed (no value with expires before now).
C5_ExpiredGoneAfterSweep ==
    last.op = "cleanup" =>
        \A k \in UserKeys :
            \A i \in 1 .. Len(Get(store, k, 0).values) :
                ~(now > Get(store, k, 0).values[i].expires)

\* C7: Get(key, from) with from not the zero time returns only values with
\* created >= from, and reports a miss when the key has no such value.
C7_GetFromFilters ==
    (last.op = "Get" /\ last.from # 0) =>
        /\ \A i \in 1 .. Len(last.result.values) :
                last.result.values[i].created >= last.from
        /\ (\A i \in 1 .. Len(store[last.key].values) :
                store[last.key].values[i].created < last.from) => ~last.result.ok

\* the sweeper has deleted an item of key k from the map
Swept(k) == store[k].gen > (IF store[k].mapped THEN 1 ELSE 0)

\* C8: Get(key, zero) never returns a value twice, and after Set calls alone
\* (the sweeper has deleted nothing of the key) it returns every value that
\* a Set of the key has stored exactly once.
C8_SetIdempotent ==
    \A k \in UserKeys :
        /\ \A v \in UserValues : Occurrences(GetAll(k), v) <= 1
        /\ ~Swept(k) =>
              \A v \in UserValues :
                  <<k, v>> \in written => Occurrences(GetAll(k), v) = 1

\* C8: the case: a Set of a (key, value) that had been set before has
\* returned, the key holding two distinct values
C8_SetTwice ==
    /\ last.op = "Set" /\ last.again
    /\ ~Swept(last.key)
    /\ Len(GetAll(last.key)) = 2

----------------------------------------------------------------------------
(***************************************************************************)
(* Properties of the routing table                                         *)
(***************************************************************************)

\* C9: every bucket holds between 0 and K live nodes at all times, and an
\* insert of an id that is not live into a full bucket without a stale member
\* leaves the live list as it was and puts the id in the promotion cache only.
C9_BucketBounded ==
    /\ \A b \in 0 .. KEY_BITS - 1 : buckets[b].size >= 0 /\ buckets[b].size <= K
    /\ (last.op = "insert" /\ last.full /\ ~last.live /\ ~last.stale) =>
          LET b == buckets[bucketID(LocalID, last.id)]
          IN  /\ Live(b) = last.before
              /\ last.id \notin LiveIDs(b)
              /\ last.id \in CacheIDs(b)

\* an insert of a new id found its bucket full
C9_InsertIntoFull == last.op = "insert" /\ last.full /\ ~last.live /\ ~last.stale

\* C10: closestN(key, count) returns min(count, live nodes) live nodes in
\* order of decreasing common prefix with the key, none of them farther from
\* the key than a live node it left out; closest(key) returns a live node
\* that no live node beats, and nil only for a table without live nodes.
C10_ClosestIsGlobal ==
    LET all == AllLive(buckets)
    IN  /\ last.op = "closestN" =>
              LET r == last.result
              IN  /\ Len(r) = IF last.count < Cardinality(all) THEN last.count
                              ELSE Cardinality(all)
                  /\ \A i \in 1 .. Len(r) : r[i] \in all
                  /\ \A i \in 1 .. Len(r) - 1 :
                        distance(r[i].id, last.key) >= distance(r[i + 1].id, last.key)
                  /\ \A m \in all : m \notin Range(r) =>
                        \A i \in 1 .. Len(r) :
                            distance(m.id, last.key) <= distance(r[i].id, last.key)
        /\ last.op = "closest" =>
              /\ (last.result = Nil) <=> (all = {})
              /\ last.result # Nil =>
                    /\ last.result \in all
                    /\ \A m \in all :
                          distance(m.id, last.key) <= distance(last.result.id, last.key)

\* closestN answered with fewer nodes than the table has
C10_ClosestNTruncated ==
    /\ last.op = "closestN"
    /\ Len(last.result) = last.count
    /\ Cardinality(AllLive(buckets)) > last.count

----------------------------------------------------------------------------
(***************************************************************************)
(* Properties of Store and Find                                            *)
(***************************************************************************)

\* the requests of the call c that are still pending
Pending(c) == {i \in 1 .. Len(requests) : requests[i].call = c}

\* C1: on a node whose routing table holds only the local node, a Store with
\* a key of KEY_BYTES bytes writes the value to the local storage and calls
\* back with nil before it returns, and a Find of the key that follows,
\* before the value's TTL has elapsed, calls back with exactly that value and
\* sends no request.
C1_SingleNodeRoundTrip ==
    /\ (last.op = "Store" /\ last.single /\ last.keylen = KEY_BYTES
            /\ ~(last.vlen > VALUE_BYTES)) =>
          /\ calls[last.call].cb = <<Result("nil", "nil")>>
          /\ requests = <<>>
          /\ Occurrences(GetAll(last.key), calls[last.call].value) = 1
    /\ (last.op = "Find" /\ last.single /\ last.keylen = KEY_BYTES /\ last.call = 2
            /\ calls[1].op = "Store" /\ ~calls[1].rejected
            /\ calls[1].key = last.key /\ now < calls[1].expires) =>
          /\ calls[2].cb = <<Result(calls[1].value, "nil")>>
          /\ requests = <<>>

\* a Find of a key follows the Store of it, within the TTL
C1_FindAfterStore ==
    /\ last.op = "Find" /\ last.single /\ last.keylen = KEY_BYTES /\ last.call = 2
    /\ calls[1].op = "Store" /\ ~calls[1].rejected
    /\ calls[1].key = last.key /\ now < calls[1].expires

\* C2: the callback of every Store call is invoked once and no more: never
\* twice, and once when no request of the call is pending any longer.
C2_StoreCallbackOnce ==
    \A c \in 1 .. Len(calls) :
        calls[c].op = "Store" =>
            /\ Len(calls[c].cb) <= 1
            /\ Pending(c) = {} => Len(calls[c].cb) = 1

\* every request of a Store to two nodes was answered or timed out
C2_StoreSettled ==
    \E c \in 1 .. Len(calls) :
        /\ calls[c].op = "Store" /\ ~calls[c].rejected
        /\ Len(calls[c].ns) = 2 /\ LocalID \notin Range(calls[c].ns)
        /\ Pending(c) = {}

\* C3: the callback of a Find with a key of KEY_BYTES bytes that the local
\* storage does not hold has been invoked, with a value or an error, by the
\* time no request of the call is pending.
C3_FindCallsBack ==
    \A c \in 1 .. Len(calls) :
        (calls[c].op = "Find" /\ ~calls[c].rejected /\ ~calls[c].hit /\ Pending(c) = {}) =>
            Len(calls[c].cb) >= 1

\* a Find that sent requests has none pending
C3_FindSettled ==
    \E c \in 1 .. Len(calls) :
        /\ calls[c].op = "Find" /\ ~calls[c].rejected /\ ~calls[c].hit
        /\ calls[c].ns # <<>>
        /\ Pending(c) = {}

\* the last call was made with a key or a value of a length Store and Find
\* are to reject
BadLength(l) ==
    /\ l.op \in {"Store", "Find"}
    /\ l.keylen # KEY_BYTES \/ l.vlen > VALUE_BYTES

\* C6: a Store or Find with a key that is not KEY_BYTES long, and a Store with
\* a value longer than VALUE_BYTES, calls back once, with an error, and does
\* nothing else: the storage, the routing table and the pending requests stay
\* as they were.
C6_RejectsBadInput ==
    [][BadLength(last') =>
          /\ UNCHANGED <<store, buckets, requests>>
          /\ Len(calls') = Len(calls) + 1
          /\ SubSeq(calls', 1, Len(calls)) = calls
          /\ Len(calls'[Len(calls')].cb) = 1
          /\ calls'[Len(calls')].cb[1].err # "nil"]_vars

\* a call was rejected while requests of an earlier call were pending
C6_Rejected == BadLength(last) /\ requests # <<>> /\ calls[Len(calls)].rejected

\* C11 as claimed: after every routingTable.insert of a node, closestN of the
\* node's id with count 1 returns that node, also when its bucket was full.
C11_InsertedAlwaysClosest ==
    last.op = "insert" =>
        /\ Len(closestN(buckets, last.id, 1)) = 1
        /\ closestN(buckets, last.id, 1)[1].id = last.id

\* C11 as amended: after a routingTable.insert of a node that was live in its
\* bucket or whose bucket was not full, closestN of the node's id with count 1
\* returns that node.
C11_LiveInsertedIsClosest ==
    (last.op = "insert" /\ (last.live \/ ~last.full)) =>
        /\ Len(closestN(buckets, last.id, 1)) = 1
        /\ closestN(buckets, last.id, 1)[1].id = last.id

\* a node was inserted as the second live node of its bucket
C11_InsertedBesideOther ==
    /\ last.op = "insert" /\ ~last.live /\ ~last.full
    /\ Len(last.before) >= 1

----------------------------------------------------------------------------
(***************************************************************************)
(* Properties of the journey                                               *)
(***************************************************************************)

RECURSIVE Flatten(_)
\* the ids of the batches, one after the other
Flatten(batches) ==
    IF batches = <<>> THEN <<>> ELSE Head(batches).ids \o Flatten(Tail(batches))

\* the least and the greatest common prefix with the journey's destination
\* among the ids of a batch
Farthest(ids) ==
    CHOOSE d \in {distance(ids[i], journey.destination) : i \in 1 .. Len(ids)} :
        \A i \in 1 .. Len(ids) : d <= distance(ids[i], journey.destination)

Nearest(ids) ==
    CHOOSE d \in {distance(ids[i], journey.destination) : i \in 1 .. Len(ids)} :
        \A i \in 1 .. Len(ids) : d >= distance(ids[i], journey.destination)

\* C12: over all calls of next on a journey no id is returned twice, and the
\* id of the source is never returned.
C12_NoIdTwice ==
    /\ \A i, k \in 1 .. Len(Flatten(walked.batches)) :
          i # k => Flatten(walked.batches)[i] # Flatten(walked.batches)[k]
    /\ journey.source \notin Range(Flatten(walked.batches))

\* next returned, in its second call or later, an id that had lost its place
\* in the full frontier before
C12_EvictedReturned ==
    /\ Range(Flatten(walked.batches)) \cap walked.evicted # {}
    /\ Len(walked.batches) >= 2

----------------------------------------------------------------------------
(***************************************************************************)
(* Properties of the latency router                                        *)
(***************************************************************************)

\* C15: GetBestRoutes(target, count) returns at most count nodes, each one of
\* closestN(target, 2*count), each measured strictly under the threshold, in
\* order of non-decreasing latency, and no candidate left out was measured
\* faster than a node returned
C15_BestRoutes ==
    last.op = "routes" =>
        LET nodes == closestN(buckets, last.target, 2 * last.count)
            r == last.result
            taken == {r[i].idx : i \in 1 .. Len(r)}
        IN  /\ Len(r) <= last.count
            /\ \A i \in 1 .. Len(r) :
                  /\ r[i].idx \in 1 .. Len(nodes)
                  /\ r[i].id = nodes[r[i].idx].id
                  /\ r[i].latency = last.measured[r[i].idx]
                  /\ r[i].latency < Threshold
            /\ \A i, j \in 1 .. Len(r) :
                  i < j => r[i].latency <= r[j].latency /\ r[i].idx # r[j].idx
            /\ \A c \in (1 .. Len(nodes)) \ taken : \A i \in 1 .. Len(r) :
                  ~(last.measured[c] < r[i].latency)

\* three candidates, the first measured at the threshold and the other two
\* under it, the last the fastest: the call for two routes returned the third
\* and then the second
C15_SlowLeftOut ==
    /\ last.op = "routes"
    /\ last.count = 2
    /\ Len(closestN(buckets, last.target, 4)) = 3
    /\ last.measured[1] = Threshold
    /\ last.measured[2] = 1
    /\ last.measured[3] = 0
    /\ Len(last.result) = 2
    /\ last.result[1].idx = 3
    /\ last.result[2].idx = 2

----------------------------------------------------------------------------
(***************************************************************************)
(* Properties of the packet manager                                        *)
(***************************************************************************)

\* the indexes among the first k fragments handed to assemble for a request
ArrivedBy(id, k) == {wire[id].arrived[j] : j \in 1 .. k}

----------------------------------------------------------------------------
(***************************************************************************)
(* Properties of the start and the shutdown                                *)
(***************************************************************************)

\* C16: New fails whenever bootstrap addresses are configured and none of
\* them gave a successful response, a single address that never answers
\* included
C16_UnansweredBootstrapFails ==
    (boot.pc = "returned" /\ boot.n >= 1 /\ ~boot.answered)
        => boot.result = "error"

\* New with one bootstrap address returned without an error after the only
\* result on its channel was the timeout of the request
C16_SingleTimedOut ==
    /\ boot.pc = "returned"
    /\ boot.n = 1
    /\ boot.br = <<ErrRequestTimeout>>
    /\ boot.result = "ok"

\* C17: after Close has returned every long-running task of the DHT has
\* exited: the read loop and the flusher of the listener, the monitor, the
\* bucket, key and latency refreshers, and the sweepers of the request cache
\* and of the storage
C17_AllExitedAfterClose ==
    tasks["Close"] = "returned" => \A t \in TaskNames : tasks[t] = "exited"

\* Close has returned, the tasks of the wait group have exited, and both
\* sweepers are in the body of their loop
C17_SweepersLeft ==
    /\ tasks["Close"] = "returned"
    /\ \A t \in Joined : tasks[t] = "exited"
    /\ \A t \in Sweepers : tasks[t] = "working"

----------------------------------------------------------------------------
(***************************************************************************)
(* Properties of the metric                                                *)
(***************************************************************************)

\* C18: distance is symmetric; the distance of an id to itself is the whole
\* key length, and the distance of two different ids is less than that
C18_SymmetricAndMaximal ==
    last.op = "distance" =>
        /\ last.ab = last.ba
        /\ last.a = last.b => last.ab = KEY_BITS
        /\ last.a # last.b => last.ab < KEY_BITS

\* the distance of two ids that differ in their last bit only was computed
C18_LastBitDiffers ==
    /\ last.op = "distance"
    /\ last.a # last.b
    /\ last.ab = KEY_BITS - 1
    /\ last.ba = KEY_BITS - 1

----------------------------------------------------------------------------
(***************************************************************************)
(* Properties of the eviction of stale nodes                               *)
(***************************************************************************)

----------------------------------------------------------------------------
(***************************************************************************)
(* Properties of the removal of a node                                     *)
(***************************************************************************)

\* C20: right after routingTable.remove(id) the table does not know the id:
\* seen(id) would return false and no closestN returns it, whether the id
\* was a live member of its bucket or sat in the promotion cache
C20_RemovedIsUnknown ==
    last.op = "remove" =>
        /\ ~RTKnown(buckets, last.id)
        /\ \A key \in IDs, count \in 1 .. K :
              \A i \in 1 .. Len(closestN(buckets, key, count)) :
                  closestN(buckets, key, count)[i].id # last.id

\* remove(id) has run on an id of the promotion cache, which still holds it:
\* seen(id) returns true
C20_StillCached ==
    /\ last.op = "remove"
    /\ last.id \in CacheIDs(buckets[bucketID(LocalID, last.id)])
    /\ last.id \notin LiveIDs(buckets[bucketID(LocalID, last.id)])
    /\ RTKnown(buckets, last.id)

----------------------------------------------------------------------------
(***************************************************************************)
(* Properties of the placement of nodes in buckets                         *)
(***************************************************************************)

\* the bucket the id belongs to: KEY_BITS - 1 less the length of the prefix
\* it shares with the local id, and 0 for the local id itself
HomeBucket(id) ==
    IF id = LocalID THEN 0 ELSE KEY_BITS - 1 - distance(LocalID, id)

\* every node of bucket i, live or cached, belongs to bucket i
Placed ==
    \A i \in 0 .. KEY_BITS - 1 :
        \A id \in LiveIDs(buckets[i]) \cup CacheIDs(buckets[i]) :
            HomeBucket(id) = i

\* C21: in every state of the routing table each node stored in bucket i, in
\* the live list or in the promotion cache, has an id whose bucket is i, and
\* an insert, seen or remove of an id changes no other bucket than that one
C21_HomeBucket ==
    /\ []Placed
    /\ [][\A i \in 0 .. KEY_BITS - 1 :
             buckets'[i] # buckets[i] =>
                 /\ last'.op \in {"insert", "seen", "remove"}
                 /\ i = HomeBucket(last'.id)]_vars

\* the local node, a node of the next bucket and three nodes of the far
\* bucket, one of them in the promotion cache, are in the table
C21_ThreeBucketsUsed ==
    /\ LocalID \in LiveIDs(buckets[0])
    /\ LiveIDs(buckets[1]) # {}
    /\ buckets[KEY_BITS - 1].size = K
    /\ CacheIDs(buckets[KEY_BITS - 1]) # {}

----------------------------------------------------------------------------
(***************************************************************************)
(* Properties of the completion of a journey                               *)
(***************************************************************************)

\* C22: over every interleaving of finish(true) and finish(false) calls on
\* one journey at most one call returns true, no call that found the journey
\* completed returns true, and completed never goes back to false
C22_OneFinisher ==
    /\ [](walked.wins <= 1 /\ ~walked.lateWin)
    /\ [][journey.completed => journey'.completed]_vars

\* a finish has returned false to a caller that found the journey completed
\* by the other caller
C22_SecondRefused ==
    /\ last.op = "finish"
    /\ ~last.ok
    /\ last.before.completed
    /\ walked.wins = 1
    /\ \E t \in 1 .. NumCallers : t # last.caller /\ threads[t].calls > 0

\* C23: a finish(false) that completes the journey found no request in
\* flight and no peer with values still owed to the journey
C23_NoFinishWhileOwed ==
    (last.op = "finish" /\ ~last.force /\ last.ok) =>
        /\ last.before.inflight = 0
        /\ \A peer \in OwingPeers : last.before.outstanding[peer] <= 0

\* finish(false) has completed a journey to which one peer still owed a value
\* while another had sent one more than it advertised
C23_FinishedWhileOwed ==
    /\ last.op = "finish"
    /\ ~last.force
    /\ last.ok
    /\ journey.completed
    /\ \E peer \in OwingPeers : last.before.outstanding[peer] > 0
    /\ \E peer \in OwingPeers : last.before.outstanding[peer] < 0

----------------------------------------------------------------------------
(***************************************************************************)
(* Properties of the frontier of a journey                                 *)
(***************************************************************************)

\* the common-prefix length of a frontier entry with the destination
Prefix(j, n) == distance(n.id, j.destination)

\* the places of the frontier of j that hold a worst-ranked entry
WorstPlaces(j) ==
    {w \in 1 .. Len(j.nodes) :
        \A x \in 1 .. Len(j.nodes) : Prefix(j, j.nodes[w]) <= Prefix(j, j.nodes[x])}

\* add was called on a full frontier with a node not visited before
AddedToFull ==
    /\ last.op = "add"
    /\ Len(last.before.nodes) = K
    /\ last.node.id # last.before.source
    /\ last.node.id \notin last.before.visited

\* C24: an add on a full frontier with a node not visited before replaces a
\* worst-ranked entry, one with the smallest common-prefix length, when the
\* node is strictly closer than some entry, and leaves the frontier as it
\* was otherwise
C24_WorstReplaced ==
    AddedToFull =>
        IF \E i \in 1 .. K : Prefix(last.before, last.before.nodes[i])
                               < Prefix(last.before, last.node)
        THEN \E w \in WorstPlaces(last.before) :
                journey.nodes = [last.before.nodes EXCEPT ![w] = last.node]
        ELSE journey.nodes = last.before.nodes

\* an add on a full frontier has replaced an entry that was not a
\* worst-ranked one, and a worse entry is still in the frontier
C24_BetterReplaced ==
    /\ AddedToFull
    /\ \E i \in 1 .. K :
          /\ i \notin WorstPlaces(last.before)
          /\ journey.nodes = [last.before.nodes EXCEPT ![i] = last.node]
          /\ journey.nodes # last.before.nodes

\* what next is to hand out: the lesser of count and the routes it found
Available == IF last.count < Len(last.before.nodes) THEN last.count
             ELSE Len(last.before.nodes)

\* C25: a next on a journey that is not completed, has iterations left and
\* a frontier that is not empty returns the min(count, routes) closest
\* entries, takes exactly those off the frontier, adds their number to
\* inflight and takes one off remaining; any other next returns nothing and
\* changes nothing.  The frontier never holds more than K entries, remaining
\* never falls below 0, and a journey of n iterations hands out at most n
\* batches
C25_NextTakesClosest ==
    /\ Len(journey.nodes) <= K
    /\ journey.remaining >= 0
    /\ walked.batches <= walked.iterations
    /\ last.op = "next" =>
          IF ~last.before.completed /\ last.before.remaining > 0
                /\ Len(last.before.nodes) > 0
          THEN /\ Len(last.next) = Available
               /\ Range(last.next) \subseteq Range(last.before.nodes)
               /\ Range(journey.nodes) = Range(last.before.nodes) \ Range(last.next)
               /\ Len(journey.nodes) = Len(last.before.nodes) - Available
               /\ \A x \in Range(last.next), y \in Range(journey.nodes) :
                     Prefix(journey, x) >= Prefix(journey, y)
               /\ journey.inflight = last.before.inflight + Available
               /\ journey.remaining = last.before.remaining - 1
               /\ journey.visited = last.before.visited
               /\ journey.completed = last.before.completed
          ELSE /\ last.next = <<>>
               /\ journey = last.before

\* on its last iteration a journey with a full frontier was asked for one
\* node and handed out the closer of the two
C25_BatchTaken ==
    /\ last.op = "next"
    /\ last.count = 1
    /\ Len(last.before.nodes) = K
    /\ Len(last.next) = 1
    /\ Len(journey.nodes) = K - 1
    /\ journey.remaining = 0
    /\ walked.batches = walked.iterations
    /\ Prefix(journey, last.next[1]) > Prefix(journey, journey.nodes[1])

----------------------------------------------------------------------------
(***************************************************************************)
(* Properties of the cache of pending requests                             *)
(***************************************************************************)

C27_CalledOnce ==
    \A k \in RequestIDs :
        requests[k].wants = 1 => walked[k].responses + walked[k].timeouts <= 1

\* a callback that returns true on its first call was given a response by a
\* listener and then the timeout by the sweeper
C27_ResponseAndTimeout ==
    \E k \in RequestIDs :
        /\ requests[k].wants = 1
        /\ walked[k].responses = 1
        /\ walked[k].timeouts = 1
        /\ last = [op |-> "timeout", key |-> k]

----------------------------------------------------------------------------
(***************************************************************************)
(* Properties of a lookup                                                  *)
(***************************************************************************)

\* the ids a FIND_VALUE request of the call c waits on
AskedOf(c) == {requests[i].id : i \in Pending(c)}

\* C28: after a FIND_VALUE response without values that lists neighbours,
\* every neighbour the journey had not visited is in the journey under its
\* own id: in the frontier or asked, and so marked visited
C28_NeighboursAdded ==
    (last.op = "response" /\ ~last.ignored) =>
        \A n \in last.fresh :
            /\ n \in calls[last.call].j.visited
            /\ \/ n \in {m.id : m \in Range(calls[last.call].j.nodes)}
               \/ n \in AskedOf(last.call)

\* a response has listed a neighbour the journey had not visited, and the
\* journey neither holds it nor has asked it
C28_NeighbourLost ==
    /\ last.op = "response"
    /\ ~last.ignored
    /\ \E n \in last.fresh :
          /\ n \notin calls[last.call].j.visited
          /\ n \notin {m.id : m \in Range(calls[last.call].j.nodes)}
          /\ n \notin AskedOf(last.call)

\* C29: when the request cache times a FIND_VALUE request out, the peer it
\* was sent to stays in the routing table if it had replied by the deadline
\* and is removed from it if it had not
C29_RemovedIffSilent ==
    (last.op = "timeout" /\ last.kind = "findValue" /\ last.known) =>
        (last.id \in {n.id : n \in AllLive(buckets)} <=> last.replied)

\* a peer that had replied by the deadline of its request, with neighbours
\* and nothing the user was told of, was removed from the routing table when
\* the request timed out
C29_RepliedAndRemoved ==
    /\ last.op = "timeout"
    /\ last.kind = "findValue"
    /\ last.known
    /\ last.replied
    /\ last.id \notin {n.id : n \in AllLive(buckets)}
    /\ \A r \in Range(calls[last.call].cb) : r.err = ErrRequestTimeout

\* C30: the user callback of a Find is never told `value not found` after
\* it was given a value, and is given no value twice
C30_FoundThenNotFound ==
    \A c \in 1 .. Len(calls) :
        calls[c].op = "Find" =>
            \A i, k \in 1 .. Len(calls[c].cb) :
                (i < k /\ calls[c].cb[i].value # "nil") =>
                    /\ calls[c].cb[k].err # "value not found"
                    /\ calls[c].cb[k].value # calls[c].cb[i].value

\* a Find gave its caller the value one peer sent and then, on the empty
\* answer of another peer, the error `value not found`
C30_ValueThenError ==
    \E c \in 1 .. Len(calls) :
        /\ calls[c].op = "Find"
        /\ Len(calls[c].cb) = 2
        /\ calls[c].cb[1] = Result("v", "nil")
        /\ calls[c].cb[2] = Result("nil", "value not found")
        /\ last.op = "response"
        /\ last.call = c
        /\ \E i \in Pending(c) : requests[i].id # last.id /\ requests[i].got = 1

----------------------------------------------------------------------------
(***************************************************************************)
(* Properties of the bootstrap results                                     *)
(***************************************************************************)

\* C31: the bootstrap callback writes to br once per bootstrap address:
\* never more results than addresses, and once no FIND_NODE request is
\* pending any more, as many results as addresses, so that New's loop over
\* br ends
C31_OneResultPerAddress ==
    boot # NoBoot =>
        /\ Len(boot.br) <= boot.n
        /\ requests = <<>> => Len(boot.br) >= boot.n

\* New waits on br for its second result and no request is left that could
\* write it: one address gave the only result, the other answered with a
\* node and its request has timed out
C31_WaitsForever ==
    /\ boot # NoBoot
    /\ boot.pc = "waiting"
    /\ boot.n = 2
    /\ boot.br = <<"nil">>
    /\ boot.answered
    /\ requests = <<>>
    /\ last.op = "timeout"

----------------------------------------------------------------------------
(***************************************************************************)
(* Properties of the maintenance tasks                                     *)
(***************************************************************************)

\* C32: a tick of the monitor pings exactly the live nodes last seen longer
\* ago than the monitor window; a node whose PING timed out is no longer
\* live, and a node that answered has been seen now
C32_PingsTheOld ==
    /\ last.op = "monitor" =>
          last.pinged = {n.id : n \in {m \in last.live : m.seen + MonitorWindow < now}}
    /\ last.op = "pingTimeout" => last.id \notin {n.id : n \in AllLive(buckets)}
    /\ last.op = "pong" =>
          \A n \in AllLive(buckets) : n.id = last.id => n.seen = now

\* a tick of the monitor pinged a node seen within the window and left out
\* a node last seen longer ago than the window
C32_PingedTheFresh ==
    /\ last.op = "monitor"
    /\ \E n \in last.live : n.seen + MonitorWindow < now /\ n.id \notin last.pinged
    /\ \E n \in last.live : n.seen + MonitorWindow > now /\ n.id \in last.pinged

\* C33: a refresh pings the nodes that were live in the bucket when it
\* began, those and no other slot, never fails on a slot without a node,
\* and when it is done the nodes that did not answer are out of the bucket
\* and those that answered are in it
C33_PingsLiveMembers ==
    /\ walked.pc # "panic"
    /\ walked.pc \in {"pinging", "done"} => Range(walked.pinged) \subseteq walked.start
    /\ walked.pc = "done" =>
          /\ Range(walked.pinged) = walked.start
          /\ walked.silent \cap LiveIDs(buckets[walked.bucket]) = {}
          /\ (walked.start \ walked.silent) \subseteq LiveIDs(buckets[walked.bucket])

\* the refresh of a bucket with one live node and one empty slot pinged the
\* node and failed on the empty slot
C33_FailedOnEmptySlot ==
    /\ walked.pc = "panic"
    /\ buckets[walked.bucket].size = 1
    /\ Len(walked.pinged) = 1
    /\ walked.nodes[walked.pos] = Nil

\* C34: a refresh that ends on a bucket with fewer than K live nodes has
\* run a lookup for an id of the bucket, and no refresh blocks on the lock
\* of its bucket
C34_RefillsBelowK ==
    /\ walked.pc # "blocked"
    /\ (walked.pc = "done" /\ buckets[walked.bucket].size < K) => walked.lookups > 0

\* a refresh removed a silent node from a full bucket and ended without a
\* lookup, the bucket below K
C34_LeftBelowK ==
    /\ walked.pc = "done"
    /\ last.op = "fill"
    /\ walked.silent # {}
    /\ buckets[walked.bucket].size < K
    /\ walked.lookups = 0

\* C35: a tick of the key refresher re-publishes, with its remaining TTL,
\* every stored value whose TTL has not elapsed, and nothing else
C35_RepublishesHeld ==
    last.op = "refreshKeys" =>
        {<<p.key, p.value, p.ttl>> : p \in Range(last.published)} = last.held

\* a tick that published nothing while a value created before it, with time
\* left to live, was held
C35_HeldNotRepublished ==
    /\ last.op = "refreshKeys"
    /\ last.published = <<>>
    /\ \E h \in last.held : h[3] > 0
    /\ \E k \in UserKeys : store[k].mapped /\ store[k].values[1].created < now

----------------------------------------------------------------------------
(***************************************************************************)
(* Properties of the listener                                              *)
(***************************************************************************)

\* the positions of the batches bs that hold the pair p
Batched(bs, p) ==
    {<<i, j>> \in (1 .. Len(bs)) \X (1 .. MaxEventSize + 1) :
        j <= Len(bs[i]) /\ bs[i][j] = p}

\* C36: an event, request or response, of a sender the routing table does
\* not know has the sender inserted and every stored value closer to it than
\* to the local node (every value when neighbours() < K) sent to it exactly
\* once in STORE requests; an event of a known sender sends none
C36_TransfersToNewSender ==
    last.op = "event" =>
        /\ RTKnown(buckets, last.sender)
        /\ last.known => last.batches = <<>>
        /\ ~last.known =>
            /\ \A p \in last.closer : Cardinality(Batched(last.batches, p)) = 1
            /\ \A b \in Range(last.batches) : Range(b) \subseteq last.closer

\* a response of an unknown sender, to which values closer to it are not sent
C36_ResponseWithoutTransfer ==
    /\ last.op = "event"
    /\ last.response
    /\ ~last.known
    /\ last.closer # {}
    /\ last.batches = <<>>
    /\ RTKnown(buckets, last.sender)

RECURSIVE ResponseValues(_)
\* the values of the responses s, in order
ResponseValues(s) ==
    IF s = <<>> THEN <<>> ELSE Head(s).values \o ResponseValues(Tail(s))

\* the responses written and not yet through the callback
PendingResponses ==
    Range(wire) \cup {threads[t].event :
                         t \in {x \in DOMAIN threads : threads[x].pc # "idle"}}

\* C37: the responses to a FIND_VALUE request for a key with n >= 1 matching
\* values all carry the id of the request, response = true and found = n,
\* none is empty and together they hold every value once; on the requester
\* outstanding[responder] is n from the first advertisement less the values
\* received since: n before any was deducted, 0 when all chunks are through
C37_ChunksPartition ==
    /\ \A e \in PendingResponses :
          /\ e.id = RequestID /\ e.response /\ e.found = walked.found
          /\ e.values # <<>>
    /\ last.op = "findValue" =>
          /\ Len(last.vs) >= 1 /\ walked.found = Len(last.vs)
          /\ ResponseValues(wire) = last.vs
    /\ walked.advertised >= 1 =>
          journey.outstanding[Responder] = walked.found - walked.deducted
    /\ walked.chunks = walked.sent /\ walked.pc = "answered" =>
          journey.outstanding[Responder] = 0

\* three values sent in more than one chunk, all of them received
C37_AllChunksReceived ==
    /\ walked.pc = "answered"
    /\ walked.found = 3
    /\ walked.sent > 1
    /\ walked.chunks = walked.sent
    /\ journey.outstanding[Responder] = 0
    /\ journey.values = ChunkValues

\* C38: a node that answered the refresher's PING within the threshold has
\* the measured time, below the threshold, recorded and its failCount reset;
\* only a node that did not answer gets the hour and one more failure
C38_AnswerIsMeasured ==
    last.op = "measured" =>
        /\ last.answered => last.latency < Threshold /\ last.failCount = 0
        /\ ~last.answered => last.latency = Hour /\ last.failCount = last.before + 1

\* a node that answered in time and was given the hour, its PONG held by a
\* listener waiting for the mutex of the bucket
C38_AnswerHeldBack ==
    /\ last.op = "measured"
    /\ last.answered
    /\ last.latency = Hour
    /\ last.failCount = last.before + 1
    /\ last.blocked # {}

\* C39: Iterate visits the values up to the one at which the visitor first
\* returns false, and once it has returned no mutex of an item is held: the
\* calls of Set, Iterate and the sweeper that follow all complete
C39_IterateReleases ==
    /\ walked.locked = {}
    /\ last.op = "Iterate" => last.visited = last.wanted
    /\ last.op \in {"Set", "Iterate", "cleanup"} => ~last.blocked

\* a Set on the key at which an earlier Iterate was stopped, waiting for the
\* mutex of its item
C39_SetWaitsForLock ==
    /\ last.op = "Set"
    /\ last.blocked
    /\ last.key \in walked.locked
    /\ store[last.key].mapped

\* C40: in every bucket each id is held at most once by the live nodes and
\* the promotion cache together, whatever was inserted, seen and removed
C40_IdOnceInBucket ==
    \A b \in DOMAIN buckets :
        /\ Cardinality(LiveIDs(buckets[b])) = buckets[b].size
        /\ Cardinality(CacheIDs(buckets[b])) = Len(buckets[b].cache)
        /\ LiveIDs(buckets[b]) \cap CacheIDs(buckets[b]) = {}

\* an insert made live, in a bucket with room, a node that the cache of the
\* bucket holds since the bucket was full
C40_LiveAndCached ==
    /\ last.op = "insert"
    /\ \E b \in DOMAIN buckets :
          /\ last.id \in LiveIDs(buckets[b]) \cap CacheIDs(buckets[b])
          /\ Cardinality(LiveIDs(buckets[b])) = buckets[b].size
          /\ Cardinality(CacheIDs(buckets[b])) = Len(buckets[b].cache)

=============================================================================
